---- MODULE Spec2Model ----
(***************************************************************************)
(* Model of the multi-system personality engine of character-engine:       *)
(* PersonalityEngine (src/src/lib/personality-engine.ts), MBTIConverter    *)
(* (src/src/lib/mbti-converter.ts) and CrossSystemValidator /              *)
(* DarkTriadCalculator (src/unnamed/part_006).                             *)
(*                                                                         *)
(* Numbers.  The code computes on JavaScript numbers.  The model holds     *)
(* every number as the integer  value * Scale  (fixed point).  All the     *)
(* coefficients of the code (tenths, hundredths, a division by 3, by 4 and *)
(* by 5, one square) are exact in this representation when the traits are  *)
(* whole numbers, so no rounding takes place in the model.                 *)
(***************************************************************************)
EXTENDS Integers, Sequences, FiniteSets, TLC

\* ------------------------------------------------------------------ numbers

\* Fixed-point unit: 3 (division by 3 of honestyHumility), 8 * 125 (the
\* products of two decimal coefficients and the variance of five values).
Scale == 3 * 1000

\* The number n of the code.
Num(n) == n * Scale

\* x * (n / d), for a decimal coefficient n / d of the code (0.7 is 7 / 10).
Mul(x, n, d) == (x * n) \div d

Min(a, b) == IF a <= b THEN a ELSE b

Max(a, b) == IF a >= b THEN a ELSE b

Abs(x) == IF x < 0 THEN 0 - x ELSE x

\* Math.pow(x, 2) in fixed point, split so that no product leaves 32 bits.
Pow2(x) ==
  LET a == Abs(x)
  IN  (a \div Scale) * a + ((a % Scale) * a) \div Scale

RECURSIVE SumOver(_, _)
\* values.reduce((sum, val) => sum + val, 0) over the values f[k], k in keys.
SumOver(f, keys) ==
  IF keys = {} THEN 0
  ELSE LET k == CHOOSE x \in keys : TRUE
       IN  f[k] + SumOver(f, keys \ {k})

\* ------------------------------------------------------------------ MBTI

\* A type string as the sequence of its four letters.
Str4(a, b, c, d) == << a, b, c, d >>

\* The MBTIType union of types/personality.ts.
MBTIType ==
  { Str4("I", "N", "T", "J"), Str4("I", "N", "T", "P"), Str4("E", "N", "T", "J"),
    Str4("E", "N", "T", "P"), Str4("I", "N", "F", "J"), Str4("I", "N", "F", "P"),
    Str4("E", "N", "F", "J"), Str4("E", "N", "F", "P"), Str4("I", "S", "T", "J"),
    Str4("I", "S", "F", "J"), Str4("E", "S", "T", "J"), Str4("E", "S", "F", "J"),
    Str4("I", "S", "T", "P"), Str4("I", "S", "F", "P"), Str4("E", "S", "T", "P"),
    Str4("E", "S", "F", "P") }

\* Mutant: the clarity of neuroticism averaged in with the other four.
calculateMBTIConfidence_FiveTraits(bigFive) ==
  LET traitClarities == << Abs(bigFive.extraversion - Num(50)),
                           Abs(bigFive.openness - Num(50)),
                           Abs(bigFive.agreeableness - Num(50)),
                           Abs(bigFive.conscientiousness - Num(50)),
                           Abs(bigFive.neuroticism - Num(50)) >>
      averageClarity == SumOver(traitClarities, 1..5) \div 5
  IN  Min(Num(100), (averageClarity * 2) + Num(20))

\* PersonalityEngine.calculateMBTIConfidence
calculateMBTIConfidence(bigFive) ==
  LET traitClarities == << Abs(bigFive.extraversion - Num(50)),
                           Abs(bigFive.openness - Num(50)),
                           Abs(bigFive.agreeableness - Num(50)),
                           Abs(bigFive.conscientiousness - Num(50)) >>
      averageClarity == SumOver(traitClarities, 1..4) \div 4
  IN  Min(Num(100), (averageClarity * 2) + Num(20))

\* Mutant: the E/I threshold met at 50 already.
convertBigFiveToMBTI_AtLeast50(bigFive) ==
  LET extraversionScore == bigFive.extraversion
      EI == IF extraversionScore >= Num(50) THEN "E" ELSE "I"
      opennessScore == bigFive.openness
      SN == IF opennessScore > Num(50) THEN "N" ELSE "S"
      agreeablenessScore == bigFive.agreeableness
      TF == IF agreeablenessScore > Num(50) THEN "F" ELSE "T"
      conscientiousnessScore == bigFive.conscientiousness
      JP == IF conscientiousnessScore > Num(50) THEN "J" ELSE "P"
      type == << EI >> \o << SN >> \o << TF >> \o << JP >>
  IN  [ type |-> type,
        dimensions |->
          [ EI |-> [preference |-> EI, strength |-> Abs(extraversionScore - Num(50)) * 2],
            SN |-> [preference |-> SN, strength |-> Abs(opennessScore - Num(50)) * 2],
            TF |-> [preference |-> TF, strength |-> Abs(agreeablenessScore - Num(50)) * 2],
            JP |-> [preference |-> JP, strength |-> Abs(conscientiousnessScore - Num(50)) * 2] ],
        confidence |-> calculateMBTIConfidence(bigFive) ]

\* PersonalityEngine.convertBigFiveToMBTI
convertBigFiveToMBTI(bigFive) ==
  LET extraversionScore == bigFive.extraversion
      EI == IF extraversionScore > Num(50) THEN "E" ELSE "I"
      opennessScore == bigFive.openness
      SN == IF opennessScore > Num(50) THEN "N" ELSE "S"
      agreeablenessScore == bigFive.agreeableness
      TF == IF agreeablenessScore > Num(50) THEN "F" ELSE "T"
      conscientiousnessScore == bigFive.conscientiousness
      JP == IF conscientiousnessScore > Num(50) THEN "J" ELSE "P"
      type == << EI >> \o << SN >> \o << TF >> \o << JP >>
  IN  [ type |-> type,
        dimensions |->
          [ EI |-> [preference |-> EI, strength |-> Abs(extraversionScore - Num(50)) * 2],
            SN |-> [preference |-> SN, strength |-> Abs(opennessScore - Num(50)) * 2],
            TF |-> [preference |-> TF, strength |-> Abs(agreeablenessScore - Num(50)) * 2],
            JP |-> [preference |-> JP, strength |-> Abs(conscientiousnessScore - Num(50)) * 2] ],
        confidence |-> calculateMBTIConfidence(bigFive) ]

\* Mutant: the converter's copy of the confidence drifts from the engine's.
MBTIConverter_getConversionConfidence_Base10(bigFive) ==
  LET traitClarities == << Abs(bigFive.extraversion - Num(50)),
                           Abs(bigFive.openness - Num(50)),
                           Abs(bigFive.agreeableness - Num(50)),
                           Abs(bigFive.conscientiousness - Num(50)) >>
      averageClarity == SumOver(traitClarities, 1..4) \div 4
  IN  Min(Num(100), (averageClarity * 2) + Num(10))

\* MBTIConverter.getConversionConfidence
MBTIConverter_getConversionConfidence(bigFive) ==
  LET traitClarities == << Abs(bigFive.extraversion - Num(50)),
                           Abs(bigFive.openness - Num(50)),
                           Abs(bigFive.agreeableness - Num(50)),
                           Abs(bigFive.conscientiousness - Num(50)) >>
      averageClarity == SumOver(traitClarities, 1..4) \div 4
  IN  Min(Num(100), (averageClarity * 2) + Num(20))

\* MBTIConverter.convertBigFiveToMBTI
MBTIConverter_convertBigFiveToMBTI(bigFive) ==
  LET EI == IF bigFive.extraversion > Num(50) THEN "E" ELSE "I"
      SN == IF bigFive.openness > Num(50) THEN "N" ELSE "S"
      TF == IF bigFive.agreeableness > Num(50) THEN "F" ELSE "T"
      JP == IF bigFive.conscientiousness > Num(50) THEN "J" ELSE "P"
      type == << EI >> \o << SN >> \o << TF >> \o << JP >>
  IN  [ type |-> type,
        dimensions |->
          [ EI |-> [preference |-> EI, strength |-> Abs(bigFive.extraversion - Num(50)) * 2],
            SN |-> [preference |-> SN, strength |-> Abs(bigFive.openness - Num(50)) * 2],
            TF |-> [preference |-> TF, strength |-> Abs(bigFive.agreeableness - Num(50)) * 2],
            JP |-> [preference |-> JP, strength |-> Abs(bigFive.conscientiousness - Num(50)) * 2] ],
        confidence |-> MBTIConverter_getConversionConfidence(bigFive) ]

\* ------------------------------------------------------------------ HEXACO

\* Mutant: the penalty applied at an agreeableness of exactly 20 as well.
calculateHonestyHumility_PenaltyAt20(bigFive) ==
  LET stability == Num(100) - bigFive.neuroticism
      honestyBase == (stability + bigFive.agreeableness + bigFive.conscientiousness) \div 3
  IN  IF bigFive.agreeableness <= Num(20)
      THEN Max(0, honestyBase - Num(30))
      ELSE Min(Num(100), honestyBase)

\* PersonalityEngine.calculateHonestyHumility
calculateHonestyHumility(bigFive) ==
  LET stability == Num(100) - bigFive.neuroticism
      honestyBase == (stability + bigFive.agreeableness + bigFive.conscientiousness) \div 3
  IN  IF bigFive.agreeableness < Num(20)
      THEN Max(0, honestyBase - Num(30))
      ELSE Min(Num(100), honestyBase)

\* PersonalityEngine.calculateEmotionality
calculateEmotionality(bigFive) ==
  LET baseEmotionality == bigFive.neuroticism
      agreeablenessBoost == Mul(bigFive.agreeableness, 2, 10)
  IN  Min(Num(100), baseEmotionality + agreeablenessBoost)

\* Mutant: the shift by 10 without the floor at 0.
adjustHEXACOAgreeableness_NoFloor(bigFive) == bigFive.agreeableness - Num(10)

\* PersonalityEngine.adjustHEXACOAgreeableness
adjustHEXACOAgreeableness(bigFive) == Max(0, bigFive.agreeableness - Num(10))

\* PersonalityEngine.calculateHEXACOConfidence: Object.values(bigFive) are the
\* values of every own property of the object.
calculateHEXACOConfidence(bigFive) ==
  LET extremeScores == { k \in DOMAIN bigFive :
                           bigFive[k] < Num(20) \/ bigFive[k] > Num(80) }
  IN  Min(Num(100), Num(70) + (Cardinality(extremeScores) * Num(5)))

\* PersonalityEngine.convertBigFiveToHEXACO
convertBigFiveToHEXACO(bigFive) ==
  [ honestyHumility |-> calculateHonestyHumility(bigFive),
    emotionality |-> calculateEmotionality(bigFive),
    extraversion |-> bigFive.extraversion,
    agreeableness |-> adjustHEXACOAgreeableness(bigFive),
    conscientiousness |-> bigFive.conscientiousness,
    openness |-> bigFive.openness,
    confidence |-> calculateHEXACOConfidence(bigFive) ]

\* HEXACOCalculator.calculateHonestyHumility
HEXACOCalculator_calculateHonestyHumility(bigFive) ==
  LET stability == Num(100) - bigFive.neuroticism
      honestyBase == (stability + bigFive.agreeableness + bigFive.conscientiousness) \div 3
  IN  IF bigFive.agreeableness < Num(20)
      THEN Max(0, honestyBase - Num(30))
      ELSE Min(Num(100), honestyBase)

\* HEXACOCalculator.mapEmotionality
HEXACOCalculator_mapEmotionality(bigFive) ==
  LET baseEmotionality == bigFive.neuroticism
      agreeablenessBoost == Mul(bigFive.agreeableness, 2, 10)
  IN  Min(Num(100), baseEmotionality + agreeablenessBoost)

\* HEXACOCalculator.adjustAgreeableness
HEXACOCalculator_adjustAgreeableness(bigFive) == Max(0, bigFive.agreeableness - Num(10))

\* Mutant: a score of exactly 80 counted as extreme.
HEXACOCalculator_getConfidence_From80(bigFive) ==
  LET extremeScores == { k \in DOMAIN bigFive :
                           /\ bigFive[k] \in Int
                           /\ (bigFive[k] < Num(20) \/ bigFive[k] >= Num(80)) }
  IN  Min(Num(100), Num(70) + (Cardinality(extremeScores) * Num(5)))

\* HEXACOCalculator.getConfidence: the values of the own properties of the
\* object that are numbers and lie below 20 or above 80.
HEXACOCalculator_getConfidence(bigFive) ==
  LET extremeScores == { k \in DOMAIN bigFive :
                           /\ bigFive[k] \in Int
                           /\ (bigFive[k] < Num(20) \/ bigFive[k] > Num(80)) }
  IN  Min(Num(100), Num(70) + (Cardinality(extremeScores) * Num(5)))

\* HEXACOCalculator.calculateFromBigFive
HEXACOCalculator_calculateFromBigFive(bigFive) ==
  [ honestyHumility |-> HEXACOCalculator_calculateHonestyHumility(bigFive),
    emotionality |-> HEXACOCalculator_mapEmotionality(bigFive),
    extraversion |-> bigFive.extraversion,
    agreeableness |-> HEXACOCalculator_adjustAgreeableness(bigFive),
    conscientiousness |-> bigFive.conscientiousness,
    openness |-> bigFive.openness,
    confidence |-> HEXACOCalculator_getConfidence(bigFive) ]

\* ------------------------------------------------------------------ Dark Triad

\* PersonalityEngine.calculateMachiavellianism
calculateMachiavellianism(bigFive) ==
  LET lowAgreeableness == Num(100) - bigFive.agreeableness
      lowNeuroticism == Num(100) - bigFive.neuroticism
      strategicThinking == Mul(bigFive.openness, 3, 10)
      machScore == Mul(lowAgreeableness, 6, 10) + Mul(lowNeuroticism, 3, 10)
                     + Mul(strategicThinking, 1, 10)
  IN  Min(Num(100), machScore)

\* Mutant: the low-agreeableness and low-neuroticism terms without their
\* first coefficients (0.7 and 0.5).
calculateNarcissism_SingleWeights(bigFive) ==
  LET highExtraversion == bigFive.extraversion
      lowAgreeableness == Num(100) - bigFive.agreeableness
      lowNeuroticism == Num(100) - bigFive.neuroticism
      narcScore == Mul(highExtraversion, 5, 10) + Mul(lowAgreeableness, 3, 10)
                     + Mul(lowNeuroticism, 2, 10)
  IN  Min(Num(100), narcScore)

\* PersonalityEngine.calculateNarcissism
calculateNarcissism(bigFive) ==
  LET highExtraversion == bigFive.extraversion
      lowAgreeableness == Mul(Num(100) - bigFive.agreeableness, 7, 10)
      lowNeuroticism == Mul(Num(100) - bigFive.neuroticism, 5, 10)
      narcScore == Mul(highExtraversion, 5, 10) + Mul(lowAgreeableness, 3, 10)
                     + Mul(lowNeuroticism, 2, 10)
  IN  Min(Num(100), narcScore)

\* PersonalityEngine.calculatePsychopathy
calculatePsychopathy(bigFive) ==
  LET veryLowAgreeableness == Mul(Num(100) - bigFive.agreeableness, 8, 10)
      lowNeuroticism == Mul(Num(100) - bigFive.neuroticism, 4, 10)
      lowConscientiousness == Mul(Num(100) - bigFive.conscientiousness, 3, 10)
      psychScore == Mul(veryLowAgreeableness, 6, 10) + Mul(lowNeuroticism, 25, 100)
                      + Mul(lowConscientiousness, 15, 100)
  IN  Min(Num(100), psychScore)

\* Mutant: the bonuses granted at a score of exactly 30 as well.
calculateDarkTriadConfidence_UpTo30(bigFive) ==
  LET antiSocialIndicators ==
        << IF bigFive.agreeableness <= Num(30) THEN Num(20) ELSE 0,
           IF bigFive.neuroticism <= Num(30) THEN Num(15) ELSE 0,
           IF bigFive.conscientiousness <= Num(30) THEN Num(10) ELSE 0 >>
      baseConfidence == Num(50)
      bonusConfidence == SumOver(antiSocialIndicators, 1..3)
  IN  Min(Num(100), baseConfidence + bonusConfidence)

\* PersonalityEngine.calculateDarkTriadConfidence
calculateDarkTriadConfidence(bigFive) ==
  LET antiSocialIndicators ==
        << IF bigFive.agreeableness < Num(30) THEN Num(20) ELSE 0,
           IF bigFive.neuroticism < Num(30) THEN Num(15) ELSE 0,
           IF bigFive.conscientiousness < Num(30) THEN Num(10) ELSE 0 >>
      baseConfidence == Num(50)
      bonusConfidence == SumOver(antiSocialIndicators, 1..3)
  IN  Min(Num(100), baseConfidence + bonusConfidence)

\* PersonalityEngine.convertBigFiveToDarkTriad
convertBigFiveToDarkTriad(bigFive) ==
  [ machiavellianism |-> calculateMachiavellianism(bigFive),
    narcissism |-> calculateNarcissism(bigFive),
    psychopathy |-> calculatePsychopathy(bigFive),
    overallDarkness |-> 0,
    riskLevel |-> "LOW",
    confidence |-> calculateDarkTriadConfidence(bigFive) ]

\* DarkTriadCalculator.calculateMachiavellianism (from a HEXACO profile)
DarkTriadCalculator_calculateMachiavellianism(hexaco) ==
  Max(0, Num(100) - (Mul(hexaco.honestyHumility, 8, 10) + Mul(hexaco.agreeableness, 2, 10)))

\* Mutant: the extraversion weight of the direct variant (0.5) copied over.
DarkTriadCalculator_calculateNarcissism_Weight5(hexaco) ==
  Max(0, Mul(Num(100) - hexaco.honestyHumility, 7, 10) + Mul(hexaco.extraversion, 5, 10))

\* DarkTriadCalculator.calculateNarcissism
DarkTriadCalculator_calculateNarcissism(hexaco) ==
  Max(0, Mul(Num(100) - hexaco.honestyHumility, 7, 10) + Mul(hexaco.extraversion, 3, 10))

\* DarkTriadCalculator.calculatePsychopathy
DarkTriadCalculator_calculatePsychopathy(hexaco) ==
  Max(0, Num(100) - (Mul(hexaco.honestyHumility, 6, 10) + Mul(hexaco.emotionality, 4, 10)))

\* DarkTriadCalculator.calculateFromHEXACO
calculateFromHEXACO(hexaco) ==
  [ machiavellianism |-> DarkTriadCalculator_calculateMachiavellianism(hexaco),
    narcissism |-> DarkTriadCalculator_calculateNarcissism(hexaco),
    psychopathy |-> DarkTriadCalculator_calculatePsychopathy(hexaco),
    overallDarkness |-> 0,
    riskLevel |-> "LOW",
    confidence |-> Num(80) ]

\* ------------------------------------------------------------------ TCI

calculateNoveltySeekingCuriosity(bigFive) ==
  Mul(bigFive.openness, 7, 10) + Mul(bigFive.extraversion, 3, 10)

calculateImpulsiveness(bigFive) ==
  Mul(Num(100) - bigFive.conscientiousness, 8, 10) + Mul(bigFive.neuroticism, 2, 10)

calculateExtravagance(bigFive) ==
  Mul(bigFive.extraversion, 6, 10) + Mul(Num(100) - bigFive.conscientiousness, 4, 10)

calculateDisorderliness(bigFive) == Num(100) - bigFive.conscientiousness

calculateHarmAvoidance(bigFive) ==
  Mul(bigFive.neuroticism, 7, 10) + Mul(Num(100) - bigFive.extraversion, 3, 10)

calculateRewardDependence(bigFive) ==
  Mul(bigFive.extraversion, 5, 10) + Mul(bigFive.agreeableness, 5, 10)

calculatePersistence(bigFive) ==
  Mul(bigFive.conscientiousness, 8, 10) + Mul(Num(100) - bigFive.neuroticism, 2, 10)

calculateSelfDirectedness(bigFive) ==
  Mul(bigFive.conscientiousness, 6, 10) + Mul(Num(100) - bigFive.neuroticism, 4, 10)

calculateCooperativeness(bigFive) ==
  Mul(bigFive.agreeableness, 8, 10) + Mul(Num(100) - bigFive.neuroticism, 2, 10)

calculateSelfTranscendence(bigFive) ==
  Mul(bigFive.openness, 6, 10) + Mul(bigFive.agreeableness, 4, 10)

\* Mutant: the sample variance (divisor n - 1).
calculateVariance_Sample(f, keys) ==
  LET mean == SumOver(f, keys) \div Cardinality(keys)
      squaredDiffs == [k \in keys |-> Pow2(f[k] - mean)]
  IN  SumOver(squaredDiffs, keys) \div (Cardinality(keys) - 1)

\* PersonalityEngine.calculateVariance over the values f[k], k in keys.
calculateVariance(f, keys) ==
  LET mean == SumOver(f, keys) \div Cardinality(keys)
      squaredDiffs == [k \in keys |-> Pow2(f[k] - mean)]
  IN  SumOver(squaredDiffs, keys) \div Cardinality(keys)

\* Mutant: the floor of 60 left out.
calculateTCIConfidence_NoFloor(bigFive) ==
  LET variance == calculateVariance(bigFive, DOMAIN bigFive)
  IN  Num(100) - variance

\* PersonalityEngine.calculateTCIConfidence: Object.values(bigFive) again.
calculateTCIConfidence(bigFive) ==
  LET variance == calculateVariance(bigFive, DOMAIN bigFive)
  IN  Max(Num(60), Num(100) - variance)

\* PersonalityEngine.convertBigFiveToTCI
convertBigFiveToTCI(bigFive) ==
  [ temperament |->
      [ noveltySeekingCuriosity |-> calculateNoveltySeekingCuriosity(bigFive),
        impulsiveness |-> calculateImpulsiveness(bigFive),
        extravagance |-> calculateExtravagance(bigFive),
        disorderliness |-> calculateDisorderliness(bigFive),
        harmAvoidance |-> calculateHarmAvoidance(bigFive),
        rewardDependence |-> calculateRewardDependence(bigFive),
        persistence |-> calculatePersistence(bigFive) ],
    character |->
      [ selfDirectedness |-> calculateSelfDirectedness(bigFive),
        cooperativeness |-> calculateCooperativeness(bigFive),
        selfTranscendence |-> calculateSelfTranscendence(bigFive) ],
    confidence |-> calculateTCIConfidence(bigFive) ]

\* Mutant: harm avoidance rising with extraversion.
TemperamentEngine_calculateFromBigFive_HarmWithExtraversion(bigFive) ==
  [ noveltySeekingCuriosity |->
      Mul(bigFive.openness, 7, 10) + Mul(bigFive.extraversion, 3, 10),
    impulsiveness |->
      Mul(Num(100) - bigFive.conscientiousness, 8, 10) + Mul(bigFive.neuroticism, 2, 10),
    extravagance |->
      Mul(bigFive.extraversion, 6, 10) + Mul(Num(100) - bigFive.conscientiousness, 4, 10),
    disorderliness |-> Num(100) - bigFive.conscientiousness,
    harmAvoidance |->
      Mul(bigFive.neuroticism, 7, 10) + Mul(bigFive.extraversion, 3, 10),
    rewardDependence |->
      Mul(bigFive.extraversion, 5, 10) + Mul(bigFive.agreeableness, 5, 10),
    persistence |->
      Mul(bigFive.conscientiousness, 8, 10) + Mul(Num(100) - bigFive.neuroticism, 2, 10) ]

\* TemperamentEngine.calculateFromBigFive of tci-engines.ts, each property
\* with the body of the static method that computes it.
TemperamentEngine_calculateFromBigFive(bigFive) ==
  [ noveltySeekingCuriosity |->
      Mul(bigFive.openness, 7, 10) + Mul(bigFive.extraversion, 3, 10),
    impulsiveness |->
      Mul(Num(100) - bigFive.conscientiousness, 8, 10) + Mul(bigFive.neuroticism, 2, 10),
    extravagance |->
      Mul(bigFive.extraversion, 6, 10) + Mul(Num(100) - bigFive.conscientiousness, 4, 10),
    disorderliness |-> Num(100) - bigFive.conscientiousness,
    harmAvoidance |->
      Mul(bigFive.neuroticism, 7, 10) + Mul(Num(100) - bigFive.extraversion, 3, 10),
    rewardDependence |->
      Mul(bigFive.extraversion, 5, 10) + Mul(bigFive.agreeableness, 5, 10),
    persistence |->
      Mul(bigFive.conscientiousness, 8, 10) + Mul(Num(100) - bigFive.neuroticism, 2, 10) ]

\* CharacterEngine.calculateFromBigFive of tci-engines.ts, likewise.
CharacterEngine_calculateFromBigFive(bigFive) ==
  [ selfDirectedness |->
      Mul(bigFive.conscientiousness, 6, 10) + Mul(Num(100) - bigFive.neuroticism, 4, 10),
    cooperativeness |->
      Mul(bigFive.agreeableness, 8, 10) + Mul(Num(100) - bigFive.neuroticism, 2, 10),
    selfTranscendence |->
      Mul(bigFive.openness, 6, 10) + Mul(bigFive.agreeableness, 4, 10) ]

\* ------------------------------------------------------------------ orchestration

requiredTraits ==
  {"openness", "conscientiousness", "extraversion", "agreeableness", "neuroticism"}

\* Mutant: the upper end of the range excluded.
validateBigFive_UpperExcluded(traits) ==
  \A trait \in requiredTraits :
     /\ trait \in DOMAIN traits
     /\ traits[trait] >= 0
     /\ traits[trait] < Num(100)

\* PersonalityEngine.validateBigFive.  A missing trait reads as undefined, and
\* undefined >= 0 is false.
validateBigFive(traits) ==
  \A trait \in requiredTraits :
     /\ trait \in DOMAIN traits
     /\ traits[trait] >= 0
     /\ traits[trait] <= Num(100)

\* What a call gives back: a value, or an exception.
Returned(v) == [status |-> "returned", value |-> v]

Threw(msg) == [status |-> "threw", error |-> msg]

\* Mutant: the Dark Triad profile taken from the HEXACO-sourced calculator.
generateAllSystems_DarkFromHEXACO(bigFive) ==
  IF ~validateBigFive(bigFive)
  THEN Threw("Invalid Big Five traits provided")
  ELSE Returned([ bigFive |-> bigFive,
                  mbti |-> convertBigFiveToMBTI(bigFive),
                  hexaco |-> convertBigFiveToHEXACO(bigFive),
                  darkTriad |-> calculateFromHEXACO(convertBigFiveToHEXACO(bigFive)),
                  tci |-> convertBigFiveToTCI(bigFive) ])

\* PersonalityEngine.generateAllSystems.  The returned object holds the
\* caller's trait object under bigFive and the four derived profiles.
generateAllSystems(bigFive) ==
  IF ~validateBigFive(bigFive)
  THEN Threw("Invalid Big Five traits provided")
  ELSE Returned([ bigFive |-> bigFive,
                  mbti |-> convertBigFiveToMBTI(bigFive),
                  hexaco |-> convertBigFiveToHEXACO(bigFive),
                  darkTriad |-> convertBigFiveToDarkTriad(bigFive),
                  tci |-> convertBigFiveToTCI(bigFive) ])

\* String.prototype.includes for a one-letter needle.
Includes(str, letter) == \E i \in 1..Len(str) : str[i] = letter

WarningA == "MBTI extraversion doesn't match Big Five extraversion"

WarningB == "High honesty-humility conflicts with elevated dark triad scores"

WarningC == "High self-directedness conflicts with high impulsiveness"

\* Mutant: rule B deducts 10 like its neighbours.
validateSystemConsistency_B10(systems) ==
  LET mbtiExtraversion == Includes(systems.mbti.type, "E")
      bigFiveExtraversion == systems.bigFive.extraversion > Num(50)
      fireA == mbtiExtraversion # bigFiveExtraversion
      warnings1 == IF fireA THEN << WarningA >> ELSE << >>
      score1 == IF fireA THEN Num(100) - Num(10) ELSE Num(100)
      hexacoHonesty == systems.hexaco.honestyHumility
      darkTriadScore == (systems.darkTriad.machiavellianism + systems.darkTriad.narcissism
                           + systems.darkTriad.psychopathy) \div 3
      fireB == hexacoHonesty > Num(70) /\ darkTriadScore > Num(50)
      warnings2 == IF fireB THEN Append(warnings1, WarningB) ELSE warnings1
      score2 == IF fireB THEN score1 - Num(10) ELSE score1
      tciSelfDirectedness == systems.tci.character.selfDirectedness
      tciImpulsiveness == systems.tci.temperament.impulsiveness
      fireC == tciSelfDirectedness > Num(70) /\ tciImpulsiveness > Num(70)
      warnings3 == IF fireC THEN Append(warnings2, WarningC) ELSE warnings2
      score3 == IF fireC THEN score2 - Num(10) ELSE score2
  IN  [ isConsistent |-> Len(warnings3) = 0,
        consistencyScore |-> Max(0, score3),
        warnings |-> warnings3 ]

\* Mutant: the extraversion threshold of rule A met at 50 already.
validateSystemConsistency_AtLeast50(systems) ==
  LET mbtiExtraversion == Includes(systems.mbti.type, "E")
      bigFiveExtraversion == systems.bigFive.extraversion >= Num(50)
      fireA == mbtiExtraversion # bigFiveExtraversion
      warnings1 == IF fireA THEN << WarningA >> ELSE << >>
      score1 == IF fireA THEN Num(100) - Num(10) ELSE Num(100)
      hexacoHonesty == systems.hexaco.honestyHumility
      darkTriadScore == (systems.darkTriad.machiavellianism + systems.darkTriad.narcissism
                           + systems.darkTriad.psychopathy) \div 3
      fireB == hexacoHonesty > Num(70) /\ darkTriadScore > Num(50)
      warnings2 == IF fireB THEN Append(warnings1, WarningB) ELSE warnings1
      score2 == IF fireB THEN score1 - Num(15) ELSE score1
      tciSelfDirectedness == systems.tci.character.selfDirectedness
      tciImpulsiveness == systems.tci.temperament.impulsiveness
      fireC == tciSelfDirectedness > Num(70) /\ tciImpulsiveness > Num(70)
      warnings3 == IF fireC THEN Append(warnings2, WarningC) ELSE warnings2
      score3 == IF fireC THEN score2 - Num(10) ELSE score2
  IN  [ isConsistent |-> Len(warnings3) = 0,
        consistencyScore |-> Max(0, score3),
        warnings |-> warnings3 ]

\* PersonalityEngine.validateSystemConsistency
validateSystemConsistency(systems) ==
  LET mbtiExtraversion == Includes(systems.mbti.type, "E")
      bigFiveExtraversion == systems.bigFive.extraversion > Num(50)
      fireA == mbtiExtraversion # bigFiveExtraversion
      warnings1 == IF fireA THEN << WarningA >> ELSE << >>
      score1 == IF fireA THEN Num(100) - Num(10) ELSE Num(100)
      hexacoHonesty == systems.hexaco.honestyHumility
      darkTriadScore == (systems.darkTriad.machiavellianism + systems.darkTriad.narcissism
                           + systems.darkTriad.psychopathy) \div 3
      fireB == hexacoHonesty > Num(70) /\ darkTriadScore > Num(50)
      warnings2 == IF fireB THEN Append(warnings1, WarningB) ELSE warnings1
      score2 == IF fireB THEN score1 - Num(15) ELSE score1
      tciSelfDirectedness == systems.tci.character.selfDirectedness
      tciImpulsiveness == systems.tci.temperament.impulsiveness
      fireC == tciSelfDirectedness > Num(70) /\ tciImpulsiveness > Num(70)
      warnings3 == IF fireC THEN Append(warnings2, WarningC) ELSE warnings2
      score3 == IF fireC THEN score2 - Num(10) ELSE score2
  IN  [ isConsistent |-> Len(warnings3) = 0,
        consistencyScore |-> Max(0, score3),
        warnings |-> warnings3 ]

\* Mutant: the loop stops one letter short.
calculateMBTIConsistency_ThreeLetters(bigFive, mbti) ==
  LET derivedMBTI == MBTIConverter_convertBigFiveToMBTI(bigFive)
      actual == mbti.type
      derived == derivedMBTI.type
      matchCount == Cardinality({ i \in 0..2 : actual[i + 1] = derived[i + 1] })
  IN  (Num(matchCount) \div 4) * 100

\* CrossSystemValidator.calculateMBTIConsistency
calculateMBTIConsistency(bigFive, mbti) ==
  LET derivedMBTI == MBTIConverter_convertBigFiveToMBTI(bigFive)
      actual == mbti.type
      derived == derivedMBTI.type
      matchCount == Cardinality({ i \in 0..3 : actual[i + 1] = derived[i + 1] })
  IN  (Num(matchCount) \div 4) * 100

\* POST /api/character/multi-system
POST_multiSystem(body) ==
  IF "traits" \notin DOMAIN body
  THEN [ status |-> 400,
         json |-> [success |-> FALSE, error |-> "Missing required field: traits."] ]
  ELSE IF ~validateBigFive(body.traits)
  THEN [ status |-> 400,
         json |-> [success |-> FALSE, error |-> "Invalid Big Five trait values."] ]
  ELSE LET profile == generateAllSystems(body.traits)
       IN  IF profile.status = "threw"
           THEN [ status |-> 500,
                  json |-> [ success |-> FALSE,
                             error |-> "Failed to generate multi-system character profile." ] ]
           ELSE [ status |-> 200,
                  json |-> [success |-> TRUE, profile |-> profile.value] ]

\* ------------------------------------------------------------------ inputs

\* Trait values the sessions draw from: the ends of the range and the
\* thresholds of the code (20, 50, 80).
TraitValues == {0, 20, 50, 80, 100}

Vector(o, c, e, a, n) ==
  [ openness |-> Num(o), conscientiousness |-> Num(c), extraversion |-> Num(e),
    agreeableness |-> Num(a), neuroticism |-> Num(n) ]

ValidVectors ==
  { Vector(o, c, e, a, n) : o \in TraitValues, c \in TraitValues, e \in TraitValues,
                            a \in TraitValues, n \in TraitValues }

\* A trait object with one trait missing, just below 0 or just above 100.
Spoil(v, k, how) ==
  CASE how = "missing" -> [x \in (DOMAIN v) \ {k} |-> v[x]]
    [] how = "below"   -> [v EXCEPT ![k] = 0 - 1]
    [] how = "above"   -> [v EXCEPT ![k] = Num(100) + 1]

InvalidVectors ==
  { Spoil(Vector(o, c, e, a, n), k, how) :
      o \in {0, 100}, c \in {0, 100}, e \in {0, 100}, a \in {0, 100}, n \in {0, 100},
      k \in requiredTraits, how \in {"missing", "below", "above"} }

\* The BigFiveTraits interface: the five traits, each a number in 0-100.
IsBigFiveTraits(t) ==
  /\ DOMAIN t = requiredTraits
  /\ \A k \in requiredTraits : 0 <= t[k] /\ t[k] <= Num(100)

\* ------------------------------------------------------------------ state

VARIABLES
  traits,    \* the trait object the caller holds in this session
  call,      \* the last completed call: its operation, argument and outcome
  mbtiRuns,  \* the MBTI profiles derived from traits in this session, in
             \* the order of their derivation (the first MaxRecorded of them)
  supplied,  \* the profiles the caller wrote itself, if it did
  input,     \* the argument the caller is about to pass: a request body of
             \* one of the routes, or a character type string
  held       \* the profile object the caller kept from generateAllSystems

vars == << traits, call, mbtiRuns, supplied, input, held >>

NoProfiles == [kind |-> "none"]

NoInput == [kind |-> "none"]

\* How many MBTI derivations of a session are kept for comparison.
MaxRecorded == 2

Record(runs, mbti) == IF Len(runs) < MaxRecorded THEN Append(runs, mbti) ELSE runs

NoCall == [op |-> "none"]

Done(op, arg, outcome) == [op |-> op, arg |-> arg, outcome |-> outcome]

Init ==
  /\ traits \in ValidVectors \cup InvalidVectors
  /\ call = NoCall
  /\ mbtiRuns = << >>
  /\ supplied = NoProfiles
  /\ input = NoInput
  /\ held = NoProfiles

\* PersonalityEngine.validateBigFive(traits)
ValidateBigFive ==
  /\ call' = Done("validateBigFive", traits, Returned(validateBigFive(traits)))
  /\ UNCHANGED << traits, mbtiRuns, supplied, input, held >>

\* PersonalityEngine.generateAllSystems(traits)
GenerateAllSystems ==
  LET outcome == generateAllSystems(traits)
  IN  /\ call' = Done("generateAllSystems", traits, outcome)
      /\ mbtiRuns' = IF outcome.status = "returned"
                     THEN Record(mbtiRuns, outcome.value.mbti)
                     ELSE mbtiRuns
      /\ UNCHANGED << traits, supplied, input, held >>

\* PersonalityEngine.validateSystemConsistency on the object generateAllSystems
\* has just returned.
ValidateGenerated ==
  /\ call.op = "generateAllSystems"
  /\ call.outcome.status = "returned"
  /\ call' = Done("validateSystemConsistency", call.outcome.value,
                  Returned(validateSystemConsistency(call.outcome.value)))
  /\ UNCHANGED << traits, mbtiRuns, supplied, input, held >>

\* POST /api/character/multi-system with the traits in the body, or without.
PostMultiSystem ==
  \E body \in { [traits |-> traits], << >> } :
     /\ call' = Done("POST multi-system", body, Returned(POST_multiSystem(body)))
     /\ UNCHANGED << traits, mbtiRuns, supplied, input, held >>

\* The single converters are typed on BigFiveTraits and their callers (the
\* orchestrator, the routes) pass validated vectors only: a session calls them
\* on a trait object of that type.
ConvertBigFiveToMBTI ==
  /\ IsBigFiveTraits(traits)
  /\ call' = Done("convertBigFiveToMBTI", traits, Returned(convertBigFiveToMBTI(traits)))
  /\ mbtiRuns' = Record(mbtiRuns, convertBigFiveToMBTI(traits))
  /\ UNCHANGED << traits, supplied, input, held >>

MBTIConverterConvert ==
  /\ IsBigFiveTraits(traits)
  /\ call' = Done("MBTIConverter.convertBigFiveToMBTI", traits,
                  Returned(MBTIConverter_convertBigFiveToMBTI(traits)))
  /\ mbtiRuns' = Record(mbtiRuns, MBTIConverter_convertBigFiveToMBTI(traits))
  /\ UNCHANGED << traits, supplied, input, held >>

ConvertBigFiveToHEXACO ==
  /\ IsBigFiveTraits(traits)
  /\ call' = Done("convertBigFiveToHEXACO", traits, Returned(convertBigFiveToHEXACO(traits)))
  /\ UNCHANGED << traits, mbtiRuns, supplied, input, held >>

ConvertBigFiveToDarkTriad ==
  /\ IsBigFiveTraits(traits)
  /\ call' = Done("convertBigFiveToDarkTriad", traits,
                  Returned(convertBigFiveToDarkTriad(traits)))
  /\ UNCHANGED << traits, mbtiRuns, supplied, input, held >>

ConvertBigFiveToTCI ==
  /\ IsBigFiveTraits(traits)
  /\ call' = Done("convertBigFiveToTCI", traits, Returned(convertBigFiveToTCI(traits)))
  /\ UNCHANGED << traits, mbtiRuns, supplied, input, held >>

\* DarkTriadCalculator.calculateFromHEXACO on the HEXACO profile just derived.
CalculateFromHEXACO ==
  /\ call.op = "convertBigFiveToHEXACO"
  /\ call' = Done("calculateFromHEXACO", call.outcome.value,
                  Returned(calculateFromHEXACO(call.outcome.value)))
  /\ UNCHANGED << traits, mbtiRuns, supplied, input, held >>

Next ==
  \/ ValidateBigFive
  \/ GenerateAllSystems
  \/ ValidateGenerated
  \/ PostMultiSystem
  \/ ConvertBigFiveToMBTI
  \/ MBTIConverterConvert
  \/ ConvertBigFiveToHEXACO
  \/ ConvertBigFiveToDarkTriad
  \/ ConvertBigFiveToTCI
  \/ CalculateFromHEXACO

Spec == Init /\ [][Next]_vars

\* ------------------------------------------------------------------ supplied profiles

\* A second kind of session: the caller holds a Big Five vector and passes the
\* validators profiles of its own making (supplied).

\* Vectors of these sessions: extraversion at the ends of its range, around
\* its threshold and at 80 and 90, the other MBTI traits on either side of theirs.
SuppliedVectors ==
  { Vector(o, c, e, a, 50) : o \in {50, 51}, c \in {50, 51}, a \in {50, 51},
                             e \in {0, 50, 51, 80, 90, 100} }

\* An MBTIProfile of the given type, as a caller writes it down.
MBTIOfType(type) ==
  [ type |-> type,
    dimensions |->
      [ EI |-> [preference |-> type[1], strength |-> Num(50)],
        SN |-> [preference |-> type[2], strength |-> Num(50)],
        TF |-> [preference |-> type[3], strength |-> Num(50)],
        JP |-> [preference |-> type[4], strength |-> Num(50)] ],
    confidence |-> Num(70) ]

HEXACOWith(hh) ==
  [ honestyHumility |-> Num(hh), emotionality |-> Num(50), extraversion |-> Num(50),
    agreeableness |-> Num(50), conscientiousness |-> Num(50), openness |-> Num(50),
    confidence |-> Num(70) ]

DarkTriadWith(m, n, p) ==
  [ machiavellianism |-> Num(m), narcissism |-> Num(n), psychopathy |-> Num(p),
    overallDarkness |-> 0, riskLevel |-> "LOW", confidence |-> Num(50) ]

TCIWith(sd, imp) ==
  [ temperament |->
      [ noveltySeekingCuriosity |-> Num(50), impulsiveness |-> Num(imp),
        extravagance |-> Num(50), disorderliness |-> Num(50), harmAvoidance |-> Num(50),
        rewardDependence |-> Num(50), persistence |-> Num(50) ],
    character |->
      [ selfDirectedness |-> Num(sd), cooperativeness |-> Num(50),
        selfTranscendence |-> Num(50) ],
    confidence |-> Num(100) ]

\* Profiles on either side of the thresholds of the three coherence rules.
SuppliedHEXACO == { HEXACOWith(hh) : hh \in {70, 71} }

SuppliedDarkTriad == { DarkTriadWith(50, 50, 50), DarkTriadWith(51, 50, 50),
                       DarkTriadWith(100, 50, 0) }

SuppliedTCI == { TCIWith(70, 71), TCIWith(71, 70), TCIWith(71, 71) }

SuppliedProfiles ==
  { [ kind |-> "supplied", mbti |-> MBTIOfType(type), hexaco |-> hexaco,
      darkTriad |-> darkTriad, tci |-> tci ] :
      type \in MBTIType, hexaco \in SuppliedHEXACO,
      darkTriad \in SuppliedDarkTriad, tci \in SuppliedTCI }

InitSupplied ==
  /\ traits \in SuppliedVectors
  /\ call = NoCall
  /\ mbtiRuns = << >>
  /\ supplied \in SuppliedProfiles
  /\ input = NoInput
  /\ held = NoProfiles

\* PersonalityEngine.validateSystemConsistency on the systems object the
\* caller assembled from its vector and its own profiles.
ValidateSupplied ==
  LET systems == [ bigFive |-> traits, mbti |-> supplied.mbti,
                   hexaco |-> supplied.hexaco, darkTriad |-> supplied.darkTriad,
                   tci |-> supplied.tci ]
  IN  /\ call' = Done("validateSystemConsistency", systems,
                      Returned(validateSystemConsistency(systems)))
      /\ UNCHANGED << traits, mbtiRuns, supplied, input, held >>

\* CrossSystemValidator.calculateMBTIConsistency on the vector and an MBTI
\* profile: the one the caller wrote, or one a converter derived from the vector.
MBTIConsistencySupplied ==
  \E mbti \in { supplied.mbti, convertBigFiveToMBTI(traits),
                MBTIConverter_convertBigFiveToMBTI(traits) } :
     /\ call' = Done("calculateMBTIConsistency", [bigFive |-> traits, mbti |-> mbti],
                     Returned(calculateMBTIConsistency(traits, mbti)))
     /\ UNCHANGED << traits, mbtiRuns, supplied, input, held >>

NextSupplied ==
  \/ ValidateSupplied
  \/ MBTIConsistencySupplied

SpecSupplied == InitSupplied /\ [][NextSupplied]_vars

\* ------------------------------------------------------------------ routes

\* A message of a response as the sequence of its parts (a template string of
\* the code has three).
Msg(s) == << s >>

\* The JSON value null.
Null == [null |-> TRUE]

\* !body[k] for a field that holds a system name: absent, or the empty string.
FalsyName(body, k) == k \notin DOMAIN body \/ body[k] = ""

\* !body.data: absent, or null.
FalsyData(body) == "data" \notin DOMAIN body \/ body.data = Null

\* A trait object as a request body carries it (every property with its JSON
\* type), and the trait object read from a body whose properties are numbers.
JVector(v) == [k \in DOMAIN v |-> [type |-> "number", value |-> v[k]]]

Numbers(o) == [k \in DOMAIN o |-> o[k].value]

Failure(status, error) == [status |-> status, json |-> [success |-> FALSE, error |-> error]]

\* Mutant: the target looked at before the vector is validated.
POST_convert_TargetFirst(body) ==
  IF FalsyName(body, "sourceSystem") \/ FalsyName(body, "targetSystem") \/ FalsyData(body)
  THEN Failure(400, Msg("Missing required fields: sourceSystem, targetSystem, or data."))
  ELSE IF body.sourceSystem # "BIG_FIVE"
  THEN Failure(400, Msg("Only BIG_FIVE as sourceSystem is currently supported."))
  ELSE IF body.targetSystem \notin {"MBTI", "HEXACO", "DARK_TRIAD", "TCI"}
  THEN Failure(400, << "Conversion to targetSystem '", body.targetSystem,
                       "' is not supported." >>)
  ELSE IF ~validateBigFive(Numbers(body.data))
  THEN Failure(400, Msg("Invalid Big Five trait values."))
  ELSE LET traits_ == Numbers(body.data)
           result == CASE body.targetSystem = "MBTI" -> convertBigFiveToMBTI(traits_)
                       [] body.targetSystem = "HEXACO" -> convertBigFiveToHEXACO(traits_)
                       [] body.targetSystem = "DARK_TRIAD" -> convertBigFiveToDarkTriad(traits_)
                       [] body.targetSystem = "TCI" -> convertBigFiveToTCI(traits_)
       IN  [status |-> 200, json |-> [success |-> TRUE, result |-> result]]

\* POST /api/personality/convert.  The converters do not throw on a vector
\* that passed validateBigFive, so the catch branch answers no request here.
POST_convert(body) ==
  IF FalsyName(body, "sourceSystem") \/ FalsyName(body, "targetSystem") \/ FalsyData(body)
  THEN Failure(400, Msg("Missing required fields: sourceSystem, targetSystem, or data."))
  ELSE IF body.sourceSystem # "BIG_FIVE"
  THEN Failure(400, Msg("Only BIG_FIVE as sourceSystem is currently supported."))
  ELSE IF ~validateBigFive(Numbers(body.data))
  THEN Failure(400, Msg("Invalid Big Five trait values."))
  ELSE LET traits_ == Numbers(body.data)
       IN  CASE body.targetSystem = "MBTI" ->
                  [ status |-> 200,
                    json |-> [success |-> TRUE, result |-> convertBigFiveToMBTI(traits_)] ]
             [] body.targetSystem = "HEXACO" ->
                  [ status |-> 200,
                    json |-> [success |-> TRUE, result |-> convertBigFiveToHEXACO(traits_)] ]
             [] body.targetSystem = "DARK_TRIAD" ->
                  [ status |-> 200,
                    json |-> [success |-> TRUE, result |-> convertBigFiveToDarkTriad(traits_)] ]
             [] body.targetSystem = "TCI" ->
                  [ status |-> 200,
                    json |-> [success |-> TRUE, result |-> convertBigFiveToTCI(traits_)] ]
             [] OTHER ->
                  Failure(400, << "Conversion to targetSystem '", body.targetSystem,
                                  "' is not supported." >>)

\* Vectors the route requests carry: valid ones (the ends of the range among
\* them) and ones with a trait missing or out of range.
RequestVectors ==
  { Vector(50, 50, 50, 50, 50), Vector(0, 100, 80, 20, 100), Vector(100, 0, 20, 80, 0),
    Spoil(Vector(50, 50, 50, 50, 50), "openness", "missing"),
    Spoil(Vector(50, 50, 50, 50, 50), "neuroticism", "above"),
    Spoil(Vector(0, 100, 80, 20, 100), "extraversion", "below") }

SourceNames == {"BIG_FIVE", "MBTI", "big_five", ""}

TargetNames == {"MBTI", "HEXACO", "DARK_TRIAD", "TCI", "BIG_FIVE", "ENNEAGRAM", "mbti", ""}

\* The request body with the fields named in present.
ConvertBody(present, source, target, data) ==
  [ k \in present |-> CASE k = "sourceSystem" -> source
                        [] k = "targetSystem" -> target
                        [] k = "data" -> data ]

ConvertBodies ==
  { [route |-> "convert", body |-> ConvertBody(present, source, target, data)] :
      present \in SUBSET {"sourceSystem", "targetSystem", "data"},
      source \in SourceNames, target \in TargetNames,
      data \in { JVector(v) : v \in RequestVectors } \cup {Null} }

\* POST /api/personality/convert with the body the client prepared.
PostConvert ==
  /\ input.route = "convert"
  /\ call' = Done("POST convert", input.body, Returned(POST_convert(input.body)))
  /\ UNCHANGED << traits, mbtiRuns, supplied, input, held >>

\* JSON values of a request body, with the type the typeof operator reports
\* for them kept apart from the value.  A string is the sequence of its
\* characters.
JNum(n) == [type |-> "number", value |-> n]

JStr(s) == [type |-> "string", value |-> s]

JObj(o) == [type |-> "object", value |-> o]

JArr(a) == [type |-> "array", value |-> a]

JNull == [type |-> "null"]

Undefined == [type |-> "undefined"]

\* obj[k]: the value of the property, undefined when the object has none.
Get(obj, k) == IF k \in DOMAIN obj THEN obj[k] ELSE Undefined

\* typeof v
TypeOf(v) == IF v.type \in {"null", "array"} THEN "object" ELSE v.type

\* The truth value !!v.
Truthy(v) ==
  CASE v.type \in {"null", "undefined"} -> FALSE
    [] v.type = "number" -> v.value # 0
    [] v.type = "string" -> Len(v.value) > 0
    [] OTHER -> TRUE

\* typeof p[k] === 'number' && p[k] >= 0 && p[k] <= 100
NumberIn0To100(p, k) ==
  /\ TypeOf(Get(p, k)) = "number"
  /\ Get(p, k).value >= 0
  /\ Get(p, k).value <= Num(100)

hexacoKeys ==
  << "honestyHumility", "emotionality", "extraversion", "agreeableness",
     "conscientiousness", "openness" >>

darkTriadKeys == << "machiavellianism", "narcissism", "psychopathy" >>

Validated(isValid, errors) ==
  [ status |-> 200,
    json |-> [success |-> TRUE, isValid |-> isValid, errors |-> errors, warnings |-> << >>] ]

\* Mutant: the range check of the Dark Triad case left out of the test.
POST_validate_DarkTriadAnyNumber(body) ==
  IF FalsyName(body, "system") \/ FalsyData(body)
  THEN Failure(400, Msg("Missing required fields: system or data."))
  ELSE LET system == body.system
           data == body.data
       IN  CASE system = "BIG_FIVE" ->
                  LET isValid == validateBigFive(Numbers(data))
                  IN  Validated(isValid, IF ~isValid
                                         THEN << "Invalid Big Five trait values." >>
                                         ELSE << >>)
             [] system = "MBTI" ->
                  LET type == Get(data, "type")
                      dimensions == Get(data, "dimensions")
                      errors1 == IF \/ ~Truthy(type)
                                    \/ TypeOf(type) # "string"
                                    \/ Len(type.value) # 4
                                 THEN << "Invalid MBTI type string." >>
                                 ELSE << >>
                      errors2 == IF ~Truthy(dimensions) \/ TypeOf(dimensions) # "object"
                                 THEN Append(errors1, "Missing or invalid MBTI dimensions.")
                                 ELSE errors1
                  IN  Validated(Len(errors2) = 0, errors2)
             [] system = "HEXACO" ->
                  LET isValid == \A i \in 1..Len(hexacoKeys) : NumberIn0To100(data, hexacoKeys[i])
                  IN  Validated(isValid, IF ~isValid
                                         THEN << "Invalid HEXACO profile values." >>
                                         ELSE << >>)
             [] system = "DARK_TRIAD" ->
                  LET isValid == \A i \in 1..Len(darkTriadKeys) :
                                   TypeOf(Get(data, darkTriadKeys[i])) = "number"
                  IN  Validated(isValid, IF ~isValid
                                         THEN << "Invalid Dark Triad profile values." >>
                                         ELSE << >>)
             [] system = "TCI" ->
                  LET isValid == Truthy(Get(data, "temperament"))
                                   /\ Truthy(Get(data, "character"))
                  IN  Validated(isValid,
                                IF ~isValid
                                THEN << "Missing temperament or character in TCI profile." >>
                                ELSE << >>)
             [] OTHER ->
                  Failure(400, << "Validation for system '", system, "' is not supported." >>)

\* POST /api/personality/validate.  No branch throws on a body whose data is
\* an object, so the catch branch answers no request here.
POST_validate(body) ==
  IF FalsyName(body, "system") \/ FalsyData(body)
  THEN Failure(400, Msg("Missing required fields: system or data."))
  ELSE LET system == body.system
           data == body.data
       IN  CASE system = "BIG_FIVE" ->
                  LET isValid == validateBigFive(Numbers(data))
                  IN  Validated(isValid, IF ~isValid
                                         THEN << "Invalid Big Five trait values." >>
                                         ELSE << >>)
             [] system = "MBTI" ->
                  LET type == Get(data, "type")
                      dimensions == Get(data, "dimensions")
                      errors1 == IF \/ ~Truthy(type)
                                    \/ TypeOf(type) # "string"
                                    \/ Len(type.value) # 4
                                 THEN << "Invalid MBTI type string." >>
                                 ELSE << >>
                      errors2 == IF ~Truthy(dimensions) \/ TypeOf(dimensions) # "object"
                                 THEN Append(errors1, "Missing or invalid MBTI dimensions.")
                                 ELSE errors1
                  IN  Validated(Len(errors2) = 0, errors2)
             [] system = "HEXACO" ->
                  LET isValid == \A i \in 1..Len(hexacoKeys) : NumberIn0To100(data, hexacoKeys[i])
                  IN  Validated(isValid, IF ~isValid
                                         THEN << "Invalid HEXACO profile values." >>
                                         ELSE << >>)
             [] system = "DARK_TRIAD" ->
                  LET isValid == \A i \in 1..Len(darkTriadKeys) :
                                   NumberIn0To100(data, darkTriadKeys[i])
                  IN  Validated(isValid, IF ~isValid
                                         THEN << "Invalid Dark Triad profile values." >>
                                         ELSE << >>)
             [] system = "TCI" ->
                  LET isValid == Truthy(Get(data, "temperament"))
                                   /\ Truthy(Get(data, "character"))
                  IN  Validated(isValid,
                                IF ~isValid
                                THEN << "Missing temperament or character in TCI profile." >>
                                ELSE << >>)
             [] OTHER ->
                  Failure(400, << "Validation for system '", system, "' is not supported." >>)

\* The object obj with property k set to v, and with property k deleted.
Put(obj, k, v) == [x \in (DOMAIN obj) \cup {k} |-> IF x = k THEN v ELSE obj[x]]

Drop(obj, k) == [x \in (DOMAIN obj) \ {k} |-> obj[x]]

\* Values a client may send where a number in 0-100 is expected: the ends of
\* the range, the values next to them, and values of another type.
ScoreValues ==
  { JNum(0), JNum(Num(100)), JNum(0 - 1), JNum(Num(100) + 1), JNum(Num(50)),
    JStr(<< "5", "0" >>), JNull }

HEXACOBase == [i \in {hexacoKeys[j] : j \in 1..6} |-> JNum(Num(50))]

HEXACOData ==
  { Put(HEXACOBase, k, v) : k \in DOMAIN HEXACOBase, v \in ScoreValues }
    \cup { Drop(HEXACOBase, k) : k \in DOMAIN HEXACOBase }
    \cup { Put(HEXACOBase, "confidence", JNum(Num(70))) }

DarkTriadBase == [i \in {darkTriadKeys[j] : j \in 1..3} |-> JNum(Num(50))]

DarkTriadData ==
  { Put(DarkTriadBase, k, v) : k \in DOMAIN DarkTriadBase, v \in ScoreValues }
    \cup { Drop(DarkTriadBase, k) : k \in DOMAIN DarkTriadBase }
    \cup { Put(DarkTriadBase, "riskLevel", JStr(<< "L", "O", "W" >>)) }

\* Values a client may send as the type of an MBTI profile.
TypeValues ==
  { JStr(Str4("I", "S", "T", "J")), JStr(Str4("X", "X", "X", "X")),
    JStr(<< "I", "S", "T" >>), JStr(<< "I", "S", "T", "J", "-", "A" >>), JStr(<< >>),
    JNum(1234), JArr(Str4("I", "S", "T", "J")), JNull }

\* Values a client may send where a sub-object is expected.
ObjectValues ==
  { JObj([EI |-> JObj([preference |-> JStr(<< "I" >>), strength |-> JNum(Num(50))])]),
    JObj(<< >>), JArr(<< >>), JNull, JStr(<< "a", "b", "c", "d" >>), JStr(<< >>),
    JNum(0), JNum(4) }

MBTIData ==
  { [type |-> type, dimensions |-> dimensions] :
      type \in TypeValues, dimensions \in ObjectValues }
    \cup { [type |-> type] : type \in TypeValues }
    \cup { [dimensions |-> dimensions] : dimensions \in ObjectValues }

TCIData ==
  { [temperament |-> temperament, character |-> character] :
      temperament \in ObjectValues, character \in ObjectValues }
    \cup { [temperament |-> temperament] : temperament \in ObjectValues }
    \cup { [character |-> character] : character \in ObjectValues }

ProfileData == MBTIData \cup HEXACOData \cup DarkTriadData \cup TCIData

\* Requests of the validate route: each profile object under each system that
\* reads its properties one by one, trait objects of numbers under BIG_FIVE
\* (validateBigFive compares the traits as numbers), any object under a name
\* the route does not
\* know, and bodies with a field absent, empty or null.
ValidateBodies ==
  { [route |-> "validate", body |-> body] :
      body \in { [system |-> system, data |-> data] :
                   system \in {"MBTI", "HEXACO", "DARK_TRIAD", "TCI"}, data \in ProfileData }
               \cup { [system |-> "BIG_FIVE", data |-> JVector(v)] : v \in RequestVectors }
               \cup { [system |-> system, data |-> data] :
                        system \in {"ENNEAGRAM", "hexaco", ""},
                        data \in {HEXACOBase, DarkTriadBase} }
               \cup { [system |-> system, data |-> Null] :
                        system \in {"BIG_FIVE", "MBTI", "TCI", "ENNEAGRAM"} }
               \cup { [system |-> system] : system \in {"BIG_FIVE", "HEXACO"} }
               \cup { [data |-> HEXACOBase], << >> } }

\* POST /api/personality/validate with the body the client prepared.
PostValidate ==
  /\ input.route = "validate"
  /\ call' = Done("POST validate", input.body, Returned(POST_validate(input.body)))
  /\ UNCHANGED << traits, mbtiRuns, supplied, input, held >>

\* The numbers of the compare route.  Its results are quotients and sums that
\* the fixed point above does not hold exactly, so the route is modelled on
\* IEEE 754 doubles: a positive double is 2^e times its significand m, a
\* sequence of Precision bits read as m[1].m[2]m[3]..., m[1] = 1; the operations
\* round to nearest, ties to even, as the operators of the code do.
Precision == 53

Zeros(n) == [i \in 1..n |-> 0]

\* The double 0: below every positive double in the order of Less.
Zero == [e |-> 0 - 2000, m |-> Zeros(Precision)]

IsZero(x) == x.m[1] = 0

RECURSIVE Binary(_)
\* The bits of a whole number n > 0, the highest first.
Binary(n) == IF n = 0 THEN << >> ELSE Binary(n \div 2) \o << n % 2 >>

\* The double of a whole number below 2^31 (exact).
FromInt(n) ==
  IF n = 0 THEN Zero
  ELSE [e |-> Len(Binary(n)) - 1, m |-> Binary(n) \o Zeros(Precision - Len(Binary(n)))]

\* x < y and x <= y
Less(x, y) ==
  \/ x.e < y.e
  \/ /\ x.e = y.e
     /\ \E i \in 1..Precision : x.m[i] < y.m[i] /\ \A j \in 1..(i - 1) : x.m[j] = y.m[j]

LessEq(x, y) == ~Less(y, x)

\* Math.min and Math.max
MinOf(x, y) == IF Less(y, x) THEN y ELSE x

MaxOf(x, y) == IF Less(x, y) THEN y ELSE x

\* The bit sequence plus one in its last place, for a sequence with a 0.
Increment(b) ==
  LET p == CHOOSE i \in 1..Len(b) : b[i] = 0 /\ \A j \in (i + 1)..Len(b) : b[j] = 1
  IN  [i \in 1..Len(b) |-> IF i < p THEN b[i] ELSE IF i = p THEN 1 ELSE 0]

\* The exact value 2^e times bits (bits[1] = 1, any length from Precision on),
\* with something more below the last bit iff sticky, rounded to a double.
Round(e, bits, sticky) ==
  LET keep == SubSeq(bits, 1, Precision)
      guard == IF Len(bits) > Precision THEN bits[Precision + 1] ELSE 0
      rest == sticky \/ \E i \in (Precision + 2)..Len(bits) : bits[i] = 1
      up == guard = 1 /\ (rest \/ keep[Precision] = 1)
  IN  IF ~up THEN [e |-> e, m |-> keep]
      ELSE IF \A i \in 1..Precision : keep[i] = 1
      THEN [e |-> e + 1, m |-> << 1 >> \o Zeros(Precision - 1)]
      ELSE [e |-> e, m |-> Increment(keep)]

\* The arithmetic below works on groups of 8 bits.
Group(bits, g) ==
  LET bit(k) == IF 8 * g + k <= Len(bits) THEN bits[8 * g + k] ELSE 0
  IN  128 * bit(1) + 64 * bit(2) + 32 * bit(3) + 16 * bit(4)
        + 8 * bit(5) + 4 * bit(6) + 2 * bit(7) + bit(8)

Bits8(v) ==
  << (v \div 128) % 2, (v \div 64) % 2, (v \div 32) % 2, (v \div 16) % 2,
     (v \div 8) % 2, (v \div 4) % 2, (v \div 2) % 2, v % 2 >>

RECURSIVE AddGroups(_, _, _, _)
\* The sum of two bit sequences of groups 0..g and a carry: the carry out,
\* then the bits of the groups.
AddGroups(a, b, g, carry) ==
  IF g < 0 THEN << carry >>
  ELSE LET s == Group(a, g) + Group(b, g) + carry
       IN  AddGroups(a, b, g - 1, s \div 256) \o Bits8(s % 256)

\* x + y.  A term more than Precision + 1 binary places below the other is
\* less than half a unit of its last place.
Add(x, y) ==
  IF IsZero(x) THEN y
  ELSE IF IsZero(y) THEN x
  ELSE LET hi == IF x.e >= y.e THEN x ELSE y
           lo == IF x.e >= y.e THEN y ELSE x
           k == hi.e - lo.e
           groups == (Precision + k + 7) \div 8
           sum == AddGroups(hi.m, Zeros(k) \o lo.m, groups - 1, 0)
       IN  IF k > Precision + 1 THEN hi
           ELSE IF sum[1] = 1 THEN Round(hi.e + 1, sum, FALSE)
           ELSE Round(hi.e, Tail(sum), FALSE)

\* How many groups of quotient bits a division produces: Precision bits and
\* a guard bit after at most 18 leading zeros fit in them.
QuotientGroups == 10

RECURSIVE LongDivision(_, _, _, _, _)
\* Group by group: the quotient bits so far and the remainder, from group g on.
LongDivision(m, d, g, q, r) ==
  IF g = QuotientGroups THEN [q |-> q, r |-> r]
  ELSE LET cur == 256 * r + Group(m, g)
       IN  LongDivision(m, d, g + 1, q \o Bits8(cur \div d), cur % d)

\* x / d for a whole number d, 0 < d < 2^16.
DivideBy(x, d) ==
  IF IsZero(x) THEN Zero
  ELSE LET res == LongDivision(x.m, d, 0, << >>, 0)
           z == CHOOSE i \in 0..(8 * QuotientGroups - 1) :
                  res.q[i + 1] = 1 /\ \A j \in 1..i : res.q[j] = 0
       IN  Round(x.e - z, SubSeq(res.q, z + 1, 8 * QuotientGroups), res.r # 0)

\* The whole number a trait of a comparison request holds.
Whole(x) == x \div Scale

\* Math.sqrt(n) for n the square of a whole number (the vectors of the
\* comparison requests have whole norms); the whole part of the root otherwise.
Sqrt(n) == CHOOSE k \in 0..300 : k * k <= n /\ (k + 1) * (k + 1) > n

compareKeys ==
  << "openness", "conscientiousness", "extraversion", "agreeableness", "neuroticism" >>

\* cosineSimilarity of compare/route.ts.  The products, their sums and the
\* product of two whole norms are whole numbers, exact in a double; the
\* quotient is rounded.
cosineSimilarity(a, b) ==
  LET va == [i \in 1..5 |-> Whole(a[compareKeys[i]])]
      vb == [i \in 1..5 |-> Whole(b[compareKeys[i]])]
      dot == SumOver([i \in 1..5 |-> va[i] * vb[i]], 1..5)
      normA == Sqrt(SumOver([i \in 1..5 |-> va[i] * va[i]], 1..5))
      normB == Sqrt(SumOver([i \in 1..5 |-> vb[i] * vb[i]], 1..5))
  IN  IF normA = 0 \/ normB = 0 THEN Zero ELSE DivideBy(FromInt(dot), normA * normB)

\* The literal 0.7
Threshold07 == DivideBy(FromInt(7), 10)

\* The pairs (i, j), i < j, in the order the two loops visit them.
RECURSIVE PairsFrom(_, _, _)
PairsFrom(i, j, n) ==
  IF i > n THEN << >>
  ELSE IF j > n THEN PairsFrom(i + 1, i + 2, n)
  ELSE << << i, j >> >> \o PairsFrom(i, j + 1, n)

RECURSIVE CompareLoop(_, _, _)
\* The loop body applied along the pairs: the running minSim, maxSim, avgSim
\* (a sum so far) and count.
CompareLoop(profiles, pairs, acc) ==
  IF pairs = << >> THEN acc
  ELSE LET sim == cosineSimilarity(profiles[Head(pairs)[1]], profiles[Head(pairs)[2]])
       IN  CompareLoop(profiles, Tail(pairs),
                       [ minSim |-> MinOf(acc.minSim, sim),
                         maxSim |-> MaxOf(acc.maxSim, sim),
                         avgSim |-> Add(acc.avgSim, sim),
                         count |-> acc.count + 1 ])

\* Mutant: the conflict flagged at 0.7 already.
POST_compare_AtMost07(body) ==
  LET profiles == Get(body, "profiles")
  IN  IF ~Truthy(profiles) \/ profiles.type # "array" \/ Len(profiles.value) < 2
      THEN Failure(400, Msg("At least two profiles are required for comparison."))
      ELSE LET bigFiveProfiles == profiles.value
               n == Len(bigFiveProfiles)
               similarities ==
                 [ i \in 1..n |->
                     [ j \in 1..n |->
                         IF i = j THEN Zero
                         ELSE cosineSimilarity(bigFiveProfiles[Min(i, j)],
                                               bigFiveProfiles[Max(i, j)]) ] ]
               loop == CompareLoop(bigFiveProfiles, PairsFrom(1, 2, n),
                                   [ minSim |-> FromInt(1), maxSim |-> Zero, avgSim |-> Zero,
                                     count |-> 0 ])
               avgSim == IF loop.count > 0 THEN DivideBy(loop.avgSim, loop.count) ELSE Zero
               conflicts == IF LessEq(loop.minSim, Threshold07)
                            THEN << "Some profiles are highly dissimilar (cosine similarity < 0.7)." >>
                            ELSE << >>
           IN  [ status |-> 200,
                 json |-> [ success |-> TRUE,
                            comparison |-> [ pairwiseSimilarities |-> similarities,
                                             minSimilarity |-> loop.minSim,
                                             maxSimilarity |-> loop.maxSim,
                                             avgSimilarity |-> avgSim,
                                             conflicts |-> conflicts ] ] ]

\* POST /api/personality/compare.  The matrix starts as all zeros and the loop
\* writes the entries off the diagonal.
POST_compare(body) ==
  LET profiles == Get(body, "profiles")
  IN  IF ~Truthy(profiles) \/ profiles.type # "array" \/ Len(profiles.value) < 2
      THEN Failure(400, Msg("At least two profiles are required for comparison."))
      ELSE LET bigFiveProfiles == profiles.value
               n == Len(bigFiveProfiles)
               similarities ==
                 [ i \in 1..n |->
                     [ j \in 1..n |->
                         IF i = j THEN Zero
                         ELSE cosineSimilarity(bigFiveProfiles[Min(i, j)],
                                               bigFiveProfiles[Max(i, j)]) ] ]
               loop == CompareLoop(bigFiveProfiles, PairsFrom(1, 2, n),
                                   [ minSim |-> FromInt(1), maxSim |-> Zero, avgSim |-> Zero,
                                     count |-> 0 ])
               avgSim == IF loop.count > 0 THEN DivideBy(loop.avgSim, loop.count) ELSE Zero
               conflicts == IF Less(loop.minSim, Threshold07)
                            THEN << "Some profiles are highly dissimilar (cosine similarity < 0.7)." >>
                            ELSE << >>
           IN  [ status |-> 200,
                 json |-> [ success |-> TRUE,
                            comparison |-> [ pairwiseSimilarities |-> similarities,
                                             minSimilarity |-> loop.minSim,
                                             maxSimilarity |-> loop.maxSim,
                                             avgSimilarity |-> avgSim,
                                             conflicts |-> conflicts ] ] ]

\* Vectors of the comparison requests: the zero vector and vectors of norm
\* 100, with pairs whose similarity is 0, 0.5, 0.6, exactly 0.7, 0.8 and more.
CompareVectors ==
  { Vector(0, 0, 0, 0, 0), Vector(100, 0, 0, 0, 0), Vector(60, 80, 0, 0, 0),
    Vector(70, 70, 10, 10, 0), Vector(50, 50, 50, 50, 0), Vector(0, 0, 0, 0, 100),
    Vector(0, 20, 40, 40, 80), Vector(40, 40, 0, 20, 80) }

\* How many profiles a comparison request carries at most.
MaxProfiles == 3

RECURSIVE ArraysOf(_, _)
\* The arrays of at most n elements of S.
ArraysOf(S, n) ==
  IF n = 0 THEN { << >> }
  ELSE LET shorter == ArraysOf(S, n - 1)
       IN  shorter \cup { Append(a, x) : a \in shorter, x \in S }

CompareBodies ==
  { [route |-> "compare", body |-> body] :
      body \in { [profiles |-> JArr(a)] : a \in ArraysOf(CompareVectors, MaxProfiles) }
               \cup { [profiles |-> JObj(v)] : v \in CompareVectors }
               \cup { [profiles |-> JNull], << >> } }

\* POST /api/personality/compare with the body the client prepared.
PostCompare ==
  /\ input.route = "compare"
  /\ call' = Done("POST compare", input.body, Returned(POST_compare(input.body)))
  /\ UNCHANGED << traits, mbtiRuns, supplied, input, held >>

InitRoutes ==
  /\ traits = Vector(50, 50, 50, 50, 50)
  /\ call = NoCall
  /\ mbtiRuns = << >>
  /\ supplied = NoProfiles
  /\ input \in ConvertBodies \cup ValidateBodies \cup CompareBodies
  /\ held = NoProfiles

NextRoutes ==
  \/ PostConvert
  \/ PostValidate
  \/ PostCompare

\* A client of the three personality routes with one request.
SpecRoutes == InitRoutes /\ [][NextRoutes]_vars

\* ------------------------------------------------------------------ the kept profile

\* A third kind of session: the caller keeps the object generateAllSystems
\* returned and goes on using its own trait object.  The returned object is
\* built as { bigFive, mbti: ..., ... }: its bigFive property is the object
\* that was passed in, not a copy of it.  The trait object of the session is
\* the one object traits, and a property that refers to it holds TraitsRef.
TraitsRef == [ref |-> "traits"]

\* The object as a reader finds it: the property that refers to the caller's
\* trait object gives that object's present properties.
Deref(obj) == [obj EXCEPT !.bigFive = traits]

\* Trait values of these sessions, on either side of the thresholds at 50.
KeptValues == {20, 80}

KeptVectors ==
  { Vector(o, c, e, a, n) : o \in KeptValues, c \in KeptValues, e \in KeptValues,
                            a \in KeptValues, n \in KeptValues }

InitKept ==
  /\ traits \in KeptVectors
  /\ call = NoCall
  /\ mbtiRuns = << >>
  /\ supplied = NoProfiles
  /\ input = NoInput
  /\ held = NoProfiles

\* const profile = PersonalityEngine.generateAllSystems(traits), kept by the
\* caller with the values the trait object had at the call.
GenerateAndKeep ==
  LET outcome == generateAllSystems(traits)
  IN  /\ outcome.status = "returned"
      /\ call' = Done("generateAllSystems", traits, outcome)
      /\ held' = [ kind |-> "kept",
                   profile |-> [outcome.value EXCEPT !.bigFive = TraitsRef],
                   given |-> traits ]
      /\ UNCHANGED << traits, mbtiRuns, supplied, input >>

\* traits[k] = v, by the caller, on its own object.
ModifyTraits ==
  \E k \in requiredTraits, v \in KeptValues :
     /\ traits[k] # Num(v)
     /\ traits' = [traits EXCEPT ![k] = Num(v)]
     /\ call' = Done("assignment", [trait |-> k, value |-> Num(v)], Returned(Num(v)))
     /\ UNCHANGED << mbtiRuns, supplied, input, held >>

\* PersonalityEngine.validateSystemConsistency(profile) on the kept object.
ValidateKept ==
  /\ held # NoProfiles
  /\ call' = Done("validateSystemConsistency", Deref(held.profile),
                  Returned(validateSystemConsistency(Deref(held.profile))))
  /\ UNCHANGED << traits, mbtiRuns, supplied, input, held >>

NextKept ==
  \/ GenerateAndKeep
  \/ ModifyTraits
  \/ ValidateKept

SpecKept == InitKept /\ [][NextKept]_vars

\* ------------------------------------------------------------------ recommendations

\* A character type is a string, held as the sequence of its characters.
UpperCaseLetters ==
  << "A", "B", "C", "D", "E", "F", "G", "H", "I", "J", "K", "L", "M", "N", "O", "P", "Q", "R", "S", "T", "U", "V", "W", "X", "Y", "Z" >>

LowerCaseLetters ==
  << "a", "b", "c", "d", "e", "f", "g", "h", "i", "j", "k", "l", "m", "n", "o", "p", "q", "r", "s", "t", "u", "v", "w", "x", "y", "z" >>

\* The letter of LowerCaseLetters that stands where c stands in
\* UpperCaseLetters; c itself for every other character.
LowerOf(c) ==
  IF \E j \in 1..Len(UpperCaseLetters) : UpperCaseLetters[j] = c
  THEN LowerCaseLetters[CHOOSE j \in 1..Len(UpperCaseLetters) : UpperCaseLetters[j] = c]
  ELSE c

\* characterType.toLowerCase()
toLowerCase(s) == [i \in 1..Len(s) |-> LowerOf(s[i])]

\* The object literal recommendations: its properties in the order they are
\* written, each the pair of its key and the array literal it holds.
recommendations ==
  << << << "h", "e", "r", "o" >>,
        << "MBTI", "TCI" >> >>,
     << << "v", "i", "l", "l", "a", "i", "n" >>,
        << "HEXACO", "DARK_TRIAD" >> >>,
     << << "a", "n", "t", "i", "h", "e", "r", "o" >>,
        << "DARK_TRIAD", "HEXACO", "TCI" >> >>,
     << << "m", "e", "n", "t", "o", "r" >>,
        << "TCI", "MBTI" >> >>,
     << << "c", "o", "m", "i", "c", "_", "r", "e", "l", "i", "e", "f" >>,
        << "MBTI", "BIG_FIVE" >> >>,
     << << "l", "o", "v", "e", "_", "i", "n", "t", "e", "r", "e", "s", "t" >>,
        << "MBTI", "TCI" >> >>,
     << << "a", "n", "t", "a", "g", "o", "n", "i", "s", "t" >>,
        << "HEXACO", "DARK_TRIAD" >> >>,
     << << "s", "i", "d", "e", "k", "i", "c", "k" >>,
        << "MBTI", "BIG_FIVE" >> >>,
     << << "c", "o", "m", "p", "l", "e", "x", "_", "c", "h", "a", "r", "a", "c", "t", "e", "r" >>,
        << "HEXACO", "DARK_TRIAD", "TCI" >> >> >>

recommendationKeys == { recommendations[i][1] : i \in 1..Len(recommendations) }

\* A function object.
Function(name) == [type |-> "function", value |-> name]

\* The names of the function properties of Object.prototype other than
\* constructor.
ObjectPrototypeFunctions ==
  { << "_", "_", "d", "e", "f", "i", "n", "e", "G", "e", "t", "t", "e", "r", "_", "_" >>,
    << "_", "_", "d", "e", "f", "i", "n", "e", "S", "e", "t", "t", "e", "r", "_", "_" >>,
    << "h", "a", "s", "O", "w", "n", "P", "r", "o", "p", "e", "r", "t", "y" >>,
    << "_", "_", "l", "o", "o", "k", "u", "p", "G", "e", "t", "t", "e", "r", "_", "_" >>,
    << "_", "_", "l", "o", "o", "k", "u", "p", "S", "e", "t", "t", "e", "r", "_", "_" >>,
    << "i", "s", "P", "r", "o", "t", "o", "t", "y", "p", "e", "O", "f" >>,
    << "p", "r", "o", "p", "e", "r", "t", "y", "I", "s", "E", "n", "u", "m", "e", "r", "a", "b", "l", "e" >>,
    << "t", "o", "S", "t", "r", "i", "n", "g" >>,
    << "v", "a", "l", "u", "e", "O", "f" >>,
    << "t", "o", "L", "o", "c", "a", "l", "e", "S", "t", "r", "i", "n", "g" >> }

\* recommendations[key]: the own property when the literal has the key, else
\* the property of Object.prototype the lookup reaches (constructor is the
\* function Object, __proto__ gives Object.prototype itself), else undefined.
Lookup(key) ==
  CASE key \in recommendationKeys ->
         JArr(recommendations[CHOOSE i \in 1..Len(recommendations) :
                                 recommendations[i][1] = key][2])
    [] key = << "c", "o", "n", "s", "t", "r", "u", "c", "t", "o", "r" >> -> Function(<< "O", "b", "j", "e", "c", "t" >>)
    [] key = << "_", "_", "p", "r", "o", "t", "o", "_", "_" >> ->
         JObj([constructor |-> Function(<< "O", "b", "j", "e", "c", "t" >>)])
    [] key \in ObjectPrototypeFunctions -> Function(key)
    [] OTHER -> Undefined

\* recommendations[characterType.toLowerCase()] || ['BIG_FIVE', 'MBTI']
getRecommendedSystemForCharacterType(characterType) ==
  LET found == Lookup(toLowerCase(characterType))
  IN  IF Truthy(found) THEN found ELSE JArr(<< "BIG_FIVE", "MBTI" >>)

\* The character types of the sessions: the nine keys, names of properties
\* of Object.prototype and other strings, each as written, in capitals, with
\* a capital first letter and with every second letter a capital.
UpperOf(c) ==
  IF \E j \in 1..Len(LowerCaseLetters) : LowerCaseLetters[j] = c
  THEN UpperCaseLetters[CHOOSE j \in 1..Len(LowerCaseLetters) : LowerCaseLetters[j] = c]
  ELSE c

Casings(s) ==
  { s,
    [i \in 1..Len(s) |-> UpperOf(s[i])],
    [i \in 1..Len(s) |-> IF i = 1 THEN UpperOf(s[i]) ELSE s[i]],
    [i \in 1..Len(s) |-> IF i % 2 = 0 THEN UpperOf(s[i]) ELSE s[i]] }

OtherNames ==
  { << >>,
    << "u", "n", "k", "n", "o", "w", "n" >>,
    << "h", "e", "r", "o", "e", "s" >>,
    << "h", "e", "r" >>,
    << "r", "i", "v", "a", "l" >>,
    << "c", "o", "n", "s", "t", "r", "u", "c", "t", "o", "r" >>,
    << "_", "_", "p", "r", "o", "t", "o", "_", "_" >>,
    << "t", "o", "S", "t", "r", "i", "n", "g" >>,
    << "v", "a", "l", "u", "e", "O", "f" >>,
    << "h", "a", "s", "O", "w", "n", "P", "r", "o", "p", "e", "r", "t", "y" >>,
    << "t", "o", "s", "t", "r", "i", "n", "g" >>,
    << "v", "a", "l", "u", "e", "o", "f" >> }

CharacterTypes ==
  UNION { Casings(s) : s \in recommendationKeys \cup OtherNames }

\* ------------------------------------------------------------------ members

\* A static method that is called as receiver.name(...) runs with this bound
\* to the receiver, and every this.name(...) in its body is looked up on that
\* receiver.  The receivers are the class PersonalityEngine and the object
\* personalitySystemUtils, whose properties hold the class's static methods
\* under names of their own.
personalitySystemUtils ==
  [ validateBigFive |-> "validateBigFive",
    convertToMBTI |-> "convertBigFiveToMBTI",
    convertToHEXACO |-> "convertBigFiveToHEXACO",
    convertToDarkTriad |-> "convertBigFiveToDarkTriad",
    convertToTCI |-> "convertBigFiveToTCI",
    generateAllSystems |-> "generateAllSystems",
    validateConsistency |-> "validateSystemConsistency",
    getRecommendedSystems |-> "getRecommendedSystemForCharacterType" ]

\* The names this.name(...) is written with in the body of each static
\* method of PersonalityEngine, in the order of their evaluation.
ThisCalls ==
  [ validateBigFive |-> << >>,
    convertBigFiveToMBTI |-> << "calculateMBTIConfidence" >>,
    calculateMBTIConfidence |-> << >>,
    convertBigFiveToHEXACO |-> << "calculateHonestyHumility", "calculateEmotionality",
                                  "adjustHEXACOAgreeableness", "calculateHEXACOConfidence" >>,
    calculateHonestyHumility |-> << >>,
    calculateEmotionality |-> << >>,
    adjustHEXACOAgreeableness |-> << >>,
    calculateHEXACOConfidence |-> << >>,
    convertBigFiveToDarkTriad |-> << "calculateMachiavellianism", "calculateNarcissism",
                                     "calculatePsychopathy", "calculateDarkTriadConfidence" >>,
    calculateMachiavellianism |-> << >>,
    calculateNarcissism |-> << >>,
    calculatePsychopathy |-> << >>,
    calculateDarkTriadConfidence |-> << >>,
    convertBigFiveToTCI |-> << "calculateNoveltySeekingCuriosity", "calculateImpulsiveness",
                               "calculateExtravagance", "calculateDisorderliness",
                               "calculateHarmAvoidance", "calculateRewardDependence",
                               "calculatePersistence", "calculateSelfDirectedness",
                               "calculateCooperativeness", "calculateSelfTranscendence",
                               "calculateTCIConfidence" >>,
    calculateNoveltySeekingCuriosity |-> << >>,
    calculateImpulsiveness |-> << >>,
    calculateExtravagance |-> << >>,
    calculateDisorderliness |-> << >>,
    calculateHarmAvoidance |-> << >>,
    calculateRewardDependence |-> << >>,
    calculatePersistence |-> << >>,
    calculateSelfDirectedness |-> << >>,
    calculateCooperativeness |-> << >>,
    calculateSelfTranscendence |-> << >>,
    calculateTCIConfidence |-> << "calculateVariance" >>,
    calculateVariance |-> << >>,
    generateAllSystems |-> << "validateBigFive", "convertBigFiveToMBTI", "convertBigFiveToHEXACO",
                              "convertBigFiveToDarkTriad", "convertBigFiveToTCI" >>,
    validateSystemConsistency |-> << >>,
    getRecommendedSystemForCharacterType |-> << >> ]

\* this[name]: the static method the receiver holds under the name, or
\* "undefined".
Member(this, name) ==
  CASE this = "PersonalityEngine" /\ name \in DOMAIN ThisCalls -> name
    [] this = "personalitySystemUtils" /\ name \in DOMAIN personalitySystemUtils ->
         personalitySystemUtils[name]
    [] OTHER -> "undefined"

\* Whether the body of the method fn, run with the given this, finds a
\* function under every name it calls on this, the bodies of those included.
RECURSIVE Resolves(_, _)

Resolves(this, fn) ==
  \A i \in 1..Len(ThisCalls[fn]) :
     /\ Member(this, ThisCalls[fn][i]) # "undefined"
     /\ Resolves(this, Member(this, ThisCalls[fn][i]))

TypeError == "TypeError: this.<name> is not a function"

\* What the body of fn computes from its argument when every call on this
\* finds the class's own method.
Body(fn, arg) ==
  CASE fn = "validateBigFive" -> Returned(validateBigFive(arg))
    [] fn = "convertBigFiveToMBTI" -> Returned(convertBigFiveToMBTI(arg))
    [] fn = "convertBigFiveToHEXACO" -> Returned(convertBigFiveToHEXACO(arg))
    [] fn = "convertBigFiveToDarkTriad" -> Returned(convertBigFiveToDarkTriad(arg))
    [] fn = "convertBigFiveToTCI" -> Returned(convertBigFiveToTCI(arg))
    [] fn = "generateAllSystems" -> generateAllSystems(arg)
    [] fn = "validateSystemConsistency" -> Returned(validateSystemConsistency(arg))
    [] fn = "getRecommendedSystemForCharacterType" ->
         Returned(getRecommendedSystemForCharacterType(arg))

\* receiver.name(arg).  generateAllSystems throws on traits that
\* this.validateBigFive rejects before it calls any converter on this.
Invoke(this, name, arg) ==
  LET fn == Member(this, name)
  IN  CASE fn = "undefined" -> Threw(TypeError)
        [] /\ fn = "generateAllSystems"
           /\ Member(this, "validateBigFive") = "validateBigFive"
           /\ ~validateBigFive(arg) -> Threw("Invalid Big Five traits provided")
        [] ~Resolves(this, fn) -> Threw(TypeError)
        [] OTHER -> Body(fn, arg)

\* The trait objects of these sessions.
MemberVectors ==
  { Vector(50, 50, 50, 50, 50), Vector(80, 20, 80, 20, 50),
    Vector(20, 80, 20, 80, 100), Vector(0, 100, 50, 80, 20) }

InitMembers ==
  /\ traits \in MemberVectors
  /\ call = NoCall
  /\ mbtiRuns = << >>
  /\ supplied = NoProfiles
  /\ input \in { [kind |-> "characterType", value |-> s] : s \in CharacterTypes }
  /\ held = NoProfiles

\* PersonalityEngine.getRecommendedSystemForCharacterType(input)
GetRecommendedSystemForCharacterType ==
  /\ call' = Done("PersonalityEngine.getRecommendedSystemForCharacterType", input.value,
                  Invoke("PersonalityEngine", "getRecommendedSystemForCharacterType", input.value))
  /\ UNCHANGED << traits, mbtiRuns, supplied, input, held >>

\* The record of a call personalitySystemUtils.name(arg).
UtilsDone(name, arg) ==
  [ op |-> "personalitySystemUtils", member |-> name, arg |-> arg,
    outcome |-> Invoke("personalitySystemUtils", name, arg) ]

\* personalitySystemUtils.validateBigFive(traits)
UtilsValidateBigFive ==
  /\ call' = UtilsDone("validateBigFive", traits)
  /\ UNCHANGED << traits, mbtiRuns, supplied, input, held >>

\* personalitySystemUtils.convertToMBTI(traits)
UtilsConvertToMBTI ==
  /\ call' = UtilsDone("convertToMBTI", traits)
  /\ UNCHANGED << traits, mbtiRuns, supplied, input, held >>

\* personalitySystemUtils.convertToHEXACO(traits)
UtilsConvertToHEXACO ==
  /\ call' = UtilsDone("convertToHEXACO", traits)
  /\ UNCHANGED << traits, mbtiRuns, supplied, input, held >>

\* personalitySystemUtils.convertToDarkTriad(traits)
UtilsConvertToDarkTriad ==
  /\ call' = UtilsDone("convertToDarkTriad", traits)
  /\ UNCHANGED << traits, mbtiRuns, supplied, input, held >>

\* personalitySystemUtils.convertToTCI(traits)
UtilsConvertToTCI ==
  /\ call' = UtilsDone("convertToTCI", traits)
  /\ UNCHANGED << traits, mbtiRuns, supplied, input, held >>

\* personalitySystemUtils.generateAllSystems(traits)
UtilsGenerateAllSystems ==
  /\ call' = UtilsDone("generateAllSystems", traits)
  /\ UNCHANGED << traits, mbtiRuns, supplied, input, held >>

\* personalitySystemUtils.validateConsistency(systems); the argument is the object PersonalityEngine.generateAllSystems(traits)
\* returns
UtilsValidateConsistency ==
  /\ call' = UtilsDone("validateConsistency", generateAllSystems(traits).value)
  /\ UNCHANGED << traits, mbtiRuns, supplied, input, held >>

\* personalitySystemUtils.getRecommendedSystems(input)
UtilsGetRecommendedSystems ==
  /\ call' = UtilsDone("getRecommendedSystems", input.value)
  /\ UNCHANGED << traits, mbtiRuns, supplied, input, held >>

NextMembers ==
  \/ GetRecommendedSystemForCharacterType
  \/ UtilsValidateBigFive
  \/ UtilsConvertToMBTI
  \/ UtilsConvertToHEXACO
  \/ UtilsConvertToDarkTriad
  \/ UtilsConvertToTCI
  \/ UtilsGenerateAllSystems
  \/ UtilsValidateConsistency
  \/ UtilsGetRecommendedSystems

SpecMembers == InitMembers /\ [][NextMembers]_vars

\* ------------------------------------------------------------------ conversions

\* Sessions that convert one trait object to MBTI, over whole-number scores
\* around the threshold at 50 and up to both ends of the scale.
MBTIScores == {0, 20, 49, 50, 51, 80, 100}

MBTIVectors ==
  { Vector(o, c, e, a, n) : o \in MBTIScores, c \in MBTIScores, e \in MBTIScores,
                            a \in MBTIScores, n \in {0, 50, 100} }

InitMBTI ==
  /\ traits \in MBTIVectors
  /\ call = NoCall
  /\ mbtiRuns = << >>
  /\ supplied = NoProfiles
  /\ input = NoInput
  /\ held = NoProfiles

NextMBTI ==
  \/ ConvertBigFiveToMBTI
  \/ MBTIConverterConvert

SpecMBTI == InitMBTI /\ [][NextMBTI]_vars

\* Sessions that convert one trait object to HEXACO.  The scores lie on both
\* sides of the limits at 20 and 80 of the conversion; 19.99 is the score
\* Num(20) - Scale \div 100.
JustBelow20 == Num(20) - (Scale \div 100)

HEXACOScores == { Num(s) : s \in {0, 5, 10, 19, 20, 50, 80, 81, 100} } \cup { JustBelow20 }

HEXACOVectors ==
  { [ openness |-> Num(o), conscientiousness |-> Num(c), extraversion |-> Num(e),
      agreeableness |-> a, neuroticism |-> Num(n) ] :
      o \in {10, 50, 90}, c \in {10, 50, 80, 100}, e \in {19, 20, 81},
      a \in HEXACOScores, n \in {0, 10, 50, 100} }

InitHEXACO ==
  /\ traits \in HEXACOVectors
  /\ call = NoCall
  /\ mbtiRuns = << >>
  /\ supplied = NoProfiles
  /\ input = NoInput
  /\ held = NoProfiles

\* HEXACOCalculator.calculateFromBigFive(traits)
HEXACOCalculatorCalculateFromBigFive ==
  /\ IsBigFiveTraits(traits)
  /\ call' = Done("HEXACOCalculator.calculateFromBigFive", traits,
                  Returned(HEXACOCalculator_calculateFromBigFive(traits)))
  /\ UNCHANGED << traits, mbtiRuns, supplied, input, held >>

NextHEXACO ==
  \/ ConvertBigFiveToHEXACO
  \/ HEXACOCalculatorCalculateFromBigFive

SpecHEXACO == InitHEXACO /\ [][NextHEXACO]_vars

\* ------------------------------------------------------------------ content warnings

\* Mutant: the cut points met by a total of exactly 240, 180 or 120.
evaluateContent_CutsIncluded(darkTriad) ==
  LET totalScore == darkTriad.machiavellianism + darkTriad.narcissism + darkTriad.psychopathy
  IN  IF totalScore >= Num(240)
      THEN [ warningLevel |-> "high",
             message |-> "This character exhibits extreme dark personality traits",
             ageRestriction |-> 18 ]
      ELSE IF totalScore >= Num(180)
      THEN [ warningLevel |-> "medium",
             message |-> "This character has strong dark personality traits",
             ageRestriction |-> 16 ]
      ELSE IF totalScore >= Num(120)
      THEN [ warningLevel |-> "low",
             message |-> "This character has some dark personality traits",
             ageRestriction |-> 13 ]
      ELSE [ warningLevel |-> "none",
             message |-> "No significant dark personality traits detected",
             ageRestriction |-> 0 ]

\* ContentWarningSystem.evaluateContent
evaluateContent(darkTriad) ==
  LET totalScore == darkTriad.machiavellianism + darkTriad.narcissism + darkTriad.psychopathy
  IN  IF totalScore > Num(240)
      THEN [ warningLevel |-> "high",
             message |-> "This character exhibits extreme dark personality traits",
             ageRestriction |-> 18 ]
      ELSE IF totalScore > Num(180)
      THEN [ warningLevel |-> "medium",
             message |-> "This character has strong dark personality traits",
             ageRestriction |-> 16 ]
      ELSE IF totalScore > Num(120)
      THEN [ warningLevel |-> "low",
             message |-> "This character has some dark personality traits",
             ageRestriction |-> 13 ]
      ELSE [ warningLevel |-> "none",
             message |-> "No significant dark personality traits detected",
             ageRestriction |-> 0 ]

\* Sessions about the Dark Triad: the caller either holds a trait object,
\* converts it and has the derived profile evaluated, or holds a Dark Triad
\* profile of its own making and has that evaluated.  The trait values lie on
\* both sides of the limit at 30 of the confidence, the scores of the
\* supplied profiles on both sides of a third of each cut point.
DarkTriadVectors ==
  { Vector(o, c, e, a, n) : o \in {0, 100}, c \in {0, 29, 30, 100}, e \in {0, 50, 100},
                            a \in {0, 29, 30, 50, 100}, n \in {0, 29, 30, 100} }

DarkTriadScores == {0, 40, 41, 60, 61, 80, 81, 100}

DarkTriadProfiles ==
  { [kind |-> "darkTriad", darkTriad |-> DarkTriadWith(m, n, p)] :
      m \in DarkTriadScores, n \in DarkTriadScores, p \in DarkTriadScores }

\* The caller of the second kind holds no trait object.
NoTraits == [kind |-> "none"]

InitDarkTriad ==
  /\ \/ traits \in DarkTriadVectors /\ supplied = NoProfiles
     \/ traits = NoTraits /\ supplied \in DarkTriadProfiles
  /\ call = NoCall
  /\ mbtiRuns = << >>
  /\ input = NoInput
  /\ held = NoProfiles

\* ContentWarningSystem.evaluateContent on the profile just derived.
EvaluateDerived ==
  /\ call.op = "convertBigFiveToDarkTriad"
  /\ call' = Done("evaluateContent", call.outcome.value,
                  Returned(evaluateContent(call.outcome.value)))
  /\ UNCHANGED << traits, mbtiRuns, supplied, input, held >>

\* ContentWarningSystem.evaluateContent on the caller's own profile.  The
\* function reads three properties of its argument and assigns none.
EvaluateSupplied ==
  /\ supplied # NoProfiles
  /\ call' = Done("evaluateContent", supplied.darkTriad,
                  Returned(evaluateContent(supplied.darkTriad)))
  /\ UNCHANGED << traits, mbtiRuns, supplied, input, held >>

NextDarkTriad ==
  \/ ConvertBigFiveToDarkTriad
  \/ EvaluateDerived
  \/ EvaluateSupplied

SpecDarkTriad == InitDarkTriad /\ [][NextDarkTriad]_vars

\* ------------------------------------------------------------------ TCI sessions

\* Sessions that convert one trait object to TCI.  The scores give vectors
\* whose variance is 36, 40 and 44, next to the flat vectors and to vectors
\* that reach both ends of the scale.
TCIScores == {0, 40, 50, 55, 60, 100}

TCIVectors ==
  { Vector(o, c, e, a, n) : o \in TCIScores, c \in TCIScores, e \in TCIScores,
                            a \in TCIScores, n \in TCIScores }

InitTCI ==
  /\ traits \in TCIVectors
  /\ call = NoCall
  /\ mbtiRuns = << >>
  /\ supplied = NoProfiles
  /\ input = NoInput
  /\ held = NoProfiles

\* TemperamentEngine.calculateFromBigFive(traits)
TemperamentEngineCalculateFromBigFive ==
  /\ IsBigFiveTraits(traits)
  /\ call' = Done("TemperamentEngine.calculateFromBigFive", traits,
                  Returned(TemperamentEngine_calculateFromBigFive(traits)))
  /\ UNCHANGED << traits, mbtiRuns, supplied, input, held >>

\* CharacterEngine.calculateFromBigFive(traits)
CharacterEngineCalculateFromBigFive ==
  /\ IsBigFiveTraits(traits)
  /\ call' = Done("CharacterEngine.calculateFromBigFive", traits,
                  Returned(CharacterEngine_calculateFromBigFive(traits)))
  /\ UNCHANGED << traits, mbtiRuns, supplied, input, held >>

NextTCI ==
  \/ ConvertBigFiveToTCI
  \/ TemperamentEngineCalculateFromBigFive
  \/ CharacterEngineCalculateFromBigFive

SpecTCI == InitTCI /\ [][NextTCI]_vars

\* ------------------------------------------------------------------ paired profiles

\* Sessions that check the coherence of profiles derived from one trait
\* object: the object generateAllSystems returns, or that object with the
\* MBTI profile replaced by one the caller wrote (supplied).  The scores lie
\* on both sides of the limits of the three rules.
PairedVectors ==
  { Vector(o, c, e, a, n) : o \in {0, 100}, c \in {0, 25, 50, 75, 100},
                            e \in {10, 50, 51, 90}, a \in {0, 25, 50, 75, 100},
                            n \in {0, 25, 50, 75, 100} }

PairedTypes ==
  { Str4("I", "N", "T", "J"), Str4("I", "S", "F", "P"),
    Str4("E", "N", "T", "J"), Str4("E", "S", "F", "P") }

InitPaired ==
  /\ traits \in PairedVectors
  /\ call = NoCall
  /\ mbtiRuns = << >>
  /\ supplied \in { [kind |-> "mbti", mbti |-> MBTIOfType(type)] : type \in PairedTypes }
  /\ input = NoInput
  /\ held = NoProfiles

\* PersonalityEngine.validateSystemConsistency on the derived profiles of
\* traits with the caller's MBTI profile in the place of the derived one.
ValidatePaired ==
  LET systems == [ bigFive |-> traits, mbti |-> supplied.mbti,
                   hexaco |-> convertBigFiveToHEXACO(traits),
                   darkTriad |-> convertBigFiveToDarkTriad(traits),
                   tci |-> convertBigFiveToTCI(traits) ]
  IN  /\ call' = Done("validateSystemConsistency", systems,
                      Returned(validateSystemConsistency(systems)))
      /\ UNCHANGED << traits, mbtiRuns, supplied, input, held >>

NextPaired ==
  \/ GenerateAllSystems
  \/ ValidateGenerated
  \/ ValidatePaired

SpecPaired == InitPaired /\ [][NextPaired]_vars

\* ------------------------------------------------------------------ cross-system consistency

\* bigFive[trait] ?? 0 and hexaco[trait] ?? 0: a missing member counts as 0.
OrZero(object, trait) == IF trait \in DOMAIN object THEN object[trait] ELSE 0

\* Mutant: emotionality compared with neuroticism as a fifth mapped trait.
calculateHEXACOConsistency_WithEmotionality(bigFive, hexaco) ==
  LET traitNames == {"extraversion", "agreeableness", "conscientiousness", "openness"}
      diff == [ trait \in traitNames |->
                  Abs(OrZero(bigFive, trait) - OrZero(hexaco, trait)) ]
      total == SumOver([ trait \in traitNames |-> Num(100) - diff[trait] ], traitNames)
                 + Num(100) - Abs(OrZero(bigFive, "neuroticism") - OrZero(hexaco, "emotionality"))
  IN  total \div 5

\* CrossSystemValidator.calculateHEXACOConsistency
calculateHEXACOConsistency(bigFive, hexaco) ==
  LET traitNames == {"extraversion", "agreeableness", "conscientiousness", "openness"}
      diff == [ trait \in traitNames |->
                  Abs(OrZero(bigFive, trait) - OrZero(hexaco, trait)) ]
      total == SumOver([ trait \in traitNames |-> Num(100) - diff[trait] ], traitNames)
  IN  total \div Cardinality(traitNames)

\* CrossSystemValidator.calculateOverallConsistency
calculateOverallConsistency(bigFive, mbti, hexaco) ==
  LET mbtiScore == calculateMBTIConsistency(bigFive, mbti)
      hexacoScore == calculateHEXACOConsistency(bigFive, hexaco)
  IN  (mbtiScore + hexacoScore) \div 2

\* Sessions that compare a trait object with a HEXACO profile: one the
\* caller wrote, complete or without its agreeableness, or the one the
\* engine derives from the trait object.
CrossVectors ==
  { Vector(o, c, e, a, 50) : o \in {0, 100}, c \in {0, 100},
                             e \in {0, 30, 100}, a \in {0, 5, 10, 50, 100} }

CrossHEXACO ==
  LET whole == { [ honestyHumility |-> Num(hh), emotionality |-> Num(em),
                   extraversion |-> Num(e), agreeableness |-> Num(a),
                   conscientiousness |-> Num(50), openness |-> Num(50),
                   confidence |-> Num(70) ] :
                   hh \in {0, 100}, em \in {0, 100}, e \in {0, 100}, a \in {0, 40, 100} }
  IN  whole \cup { [ honestyHumility |-> Num(50), emotionality |-> Num(50),
                     extraversion |-> Num(50), conscientiousness |-> Num(50),
                     openness |-> Num(50), confidence |-> Num(70) ] }

CrossProfiles ==
  { [kind |-> "cross", mbti |-> MBTIOfType(type), hexaco |-> hexaco] :
      type \in { Str4("I", "N", "T", "J"), Str4("E", "S", "F", "P") },
      hexaco \in CrossHEXACO }

InitCross ==
  /\ traits \in CrossVectors
  /\ call = NoCall
  /\ mbtiRuns = << >>
  /\ supplied \in CrossProfiles
  /\ input = NoInput
  /\ held = NoProfiles

\* CrossSystemValidator.calculateHEXACOConsistency on the caller's profile.
HEXACOConsistencySupplied ==
  /\ call' = Done("calculateHEXACOConsistency",
                  [bigFive |-> traits, hexaco |-> supplied.hexaco],
                  Returned(calculateHEXACOConsistency(traits, supplied.hexaco)))
  /\ UNCHANGED << traits, mbtiRuns, supplied, input, held >>

\* CrossSystemValidator.calculateHEXACOConsistency on the profile
\* PersonalityEngine.convertBigFiveToHEXACO derives from the trait object.
HEXACOConsistencyDerived ==
  LET hexaco == convertBigFiveToHEXACO(traits)
  IN  /\ call' = Done("calculateHEXACOConsistency",
                      [bigFive |-> traits, hexaco |-> hexaco],
                      Returned(calculateHEXACOConsistency(traits, hexaco)))
      /\ UNCHANGED << traits, mbtiRuns, supplied, input, held >>

\* CrossSystemValidator.calculateOverallConsistency on the caller's profiles.
OverallConsistency ==
  /\ call' = Done("calculateOverallConsistency",
                  [bigFive |-> traits, mbti |-> supplied.mbti, hexaco |-> supplied.hexaco],
                  Returned(calculateOverallConsistency(traits, supplied.mbti,
                                                       supplied.hexaco)))
  /\ UNCHANGED << traits, mbtiRuns, supplied, input, held >>

NextCross ==
  \/ HEXACOConsistencySupplied
  \/ HEXACOConsistencyDerived
  \/ OverallConsistency

SpecCross == InitCross /\ [][NextCross]_vars

\* ------------------------------------------------------------------ MBTI to Big Five

\* Mutant: openness taken from the letter S.
convertMBTIToBigFive_OpennessFromS(mbtiType) ==
  [ extraversion |-> IF mbtiType[1] = "E" THEN Num(75) ELSE Num(25),
    openness |-> IF mbtiType[2] = "S" THEN Num(75) ELSE Num(25),
    agreeableness |-> IF mbtiType[3] = "F" THEN Num(75) ELSE Num(25),
    conscientiousness |-> IF mbtiType[4] = "J" THEN Num(75) ELSE Num(25) ]

\* MBTIConverter.convertMBTIToBigFive; mbtiType[0] is the first letter.
convertMBTIToBigFive(mbtiType) ==
  [ extraversion |-> IF mbtiType[1] = "E" THEN Num(75) ELSE Num(25),
    openness |-> IF mbtiType[2] = "N" THEN Num(75) ELSE Num(25),
    agreeableness |-> IF mbtiType[3] = "F" THEN Num(75) ELSE Num(25),
    conscientiousness |-> IF mbtiType[4] = "J" THEN Num(75) ELSE Num(25) ]

\* Sessions that start from a four-letter string, one of the 16 types or
\* not, turn it into a partial trait object, complete that with a
\* neuroticism and convert the result to MBTI.
GivenTypes == MBTIType \cup { Str4("i", "n", "t", "j"), Str4("X", "X", "X", "X") }

Neuroticisms == { Num(n) : n \in {0, 10, 25, 50, 51, 75, 90, 100} }

InitFromMBTI ==
  /\ traits = NoTraits
  /\ call = NoCall
  /\ mbtiRuns = << >>
  /\ supplied \in { [kind |-> "type", type |-> type] : type \in GivenTypes }
  /\ input = NoInput
  /\ held = NoProfiles

\* MBTIConverter.convertMBTIToBigFive(type); the caller keeps the returned
\* object with a neuroticism of its own as the trait object.
ConvertMBTIToBigFive ==
  \E neuroticism \in Neuroticisms :
     LET partial == convertMBTIToBigFive(supplied.type)
     IN  /\ call' = Done("convertMBTIToBigFive", supplied.type, Returned(partial))
         /\ traits' = [ openness |-> partial.openness,
                        conscientiousness |-> partial.conscientiousness,
                        extraversion |-> partial.extraversion,
                        agreeableness |-> partial.agreeableness,
                        neuroticism |-> neuroticism ]
         /\ UNCHANGED << mbtiRuns, supplied, input, held >>

NextFromMBTI ==
  \/ ConvertMBTIToBigFive
  \/ MBTIConverterConvert

SpecFromMBTI == InitFromMBTI /\ [][NextFromMBTI]_vars

\* ------------------------------------------------------------------ convert, then validate

\* The profile of a convert response as the JSON the client receives and
\* sends back as the data of a validate request: every member with its JSON
\* type.  A one-letter preference is a string of length 1.
ProfileAsJSON(system, profile) ==
  CASE system = "MBTI" ->
         [ type |-> JStr(profile.type),
           dimensions |->
             JObj([ d \in DOMAIN profile.dimensions |->
                      JObj([ preference |-> JStr(<< profile.dimensions[d].preference >>),
                             strength |-> JNum(profile.dimensions[d].strength) ]) ]),
           confidence |-> JNum(profile.confidence) ]
    [] system = "HEXACO" -> JVector(profile)
    [] system = "DARK_TRIAD" ->
         [ k \in DOMAIN profile |->
             IF k = "riskLevel" THEN JStr(<< "L", "O", "W" >>) ELSE JNum(profile[k]) ]
    [] system = "TCI" ->
         [ temperament |-> JObj(JVector(profile.temperament)),
           character |-> JObj(JVector(profile.character)),
           confidence |-> JNum(profile.confidence) ]

\* Vectors of the requests: every trait at the ends of the range, next to the
\* limits of the conversions and in the middle; and two vectors the convert
\* route refuses.
ConvertedScores == {0, 5, 50, 100}

ConvertedVectors ==
  { Vector(o, c, e, a, n) : o \in ConvertedScores, c \in ConvertedScores,
                            e \in ConvertedScores, a \in ConvertedScores,
                            n \in ConvertedScores }
    \cup { Spoil(Vector(50, 50, 50, 50, 50), "openness", "missing"),
           Spoil(Vector(50, 50, 50, 50, 50), "neuroticism", "above") }

InitConverted ==
  /\ traits = Vector(50, 50, 50, 50, 50)
  /\ call = NoCall
  /\ mbtiRuns = << >>
  /\ supplied = NoProfiles
  /\ input \in { [ route |-> "convert",
                   body |-> [ sourceSystem |-> "BIG_FIVE", targetSystem |-> target,
                              data |-> JVector(v) ] ] :
                   target \in {"MBTI", "HEXACO", "DARK_TRIAD", "TCI"},
                   v \in ConvertedVectors }
  /\ held = NoProfiles

\* POST /api/personality/validate with the result of the convert response
\* as data and the target of the conversion as system.
ValidateConverted ==
  /\ call.op = "POST convert"
  /\ call.outcome.value.status = 200
  /\ LET system == call.arg.targetSystem
         body == [ system |-> system,
                   data |-> ProfileAsJSON(system, call.outcome.value.json.result) ]
     IN  call' = Done("POST validate", body, Returned(POST_validate(body)))
  /\ UNCHANGED << traits, mbtiRuns, supplied, input, held >>

NextConverted ==
  \/ PostConvert
  \/ ValidateConverted

SpecConverted == InitConverted /\ [][NextConverted]_vars

\* ------------------------------------------------------------------ claims

InRange(x) == 0 <= x /\ x <= Num(100)

\* generateAllSystems has just returned a profile.
Generated == call.op = "generateAllSystems" /\ call.outcome.status = "returned"

\* C1: for a Big Five vector with all five fields in [0,100], every numeric
\* field of every profile generateAllSystems returns lies in [0,100].
C1_FieldsInRange ==
  (Generated /\ IsBigFiveTraits(call.arg)) =>
    LET p == call.outcome.value
    IN  /\ \A d \in {"EI", "SN", "TF", "JP"} : InRange(p.mbti.dimensions[d].strength)
        /\ InRange(p.mbti.confidence)
        /\ \A f \in {"honestyHumility", "emotionality", "extraversion", "agreeableness",
                     "conscientiousness", "openness", "confidence"} : InRange(p.hexaco[f])
        /\ \A f \in {"machiavellianism", "narcissism", "psychopathy", "overallDarkness",
                     "confidence"} : InRange(p.darkTriad[f])
        /\ DOMAIN p.tci.temperament =
             {"noveltySeekingCuriosity", "impulsiveness", "extravagance", "disorderliness",
              "harmAvoidance", "rewardDependence", "persistence"}
        /\ \A f \in DOMAIN p.tci.temperament : InRange(p.tci.temperament[f])
        /\ DOMAIN p.tci.character = {"selfDirectedness", "cooperativeness", "selfTranscendence"}
        /\ \A f \in DOMAIN p.tci.character : InRange(p.tci.character[f])
        /\ InRange(p.tci.confidence)

\* A profile generated from an extreme vector: fields sit on both ends of the range.
C1_Witness ==
  /\ Generated
  /\ call.arg.agreeableness = 0
  /\ call.outcome.value.hexaco.agreeableness = 0
  /\ call.outcome.value.hexaco.emotionality = Num(100)
  /\ call.outcome.value.tci.temperament.disorderliness = Num(100)

\* The claim's reading of an invalid vector: a trait missing or outside [0,100].
SomeTraitInvalid(t) ==
  \E k \in requiredTraits : k \notin DOMAIN t \/ t[k] < 0 \/ t[k] > Num(100)

ProfileFields == {"bigFive", "mbti", "hexaco", "darkTriad", "tci"}

\* C2: generateAllSystems throws, returning nothing, exactly when a trait is
\* missing or outside [0,100], which is exactly when validateBigFive fails; on
\* every other vector, 0 and 100 included, it returns a complete profile.
C2_ThrowsIffInvalid ==
  /\ call.op = "validateBigFive" => (call.outcome.value <=> ~SomeTraitInvalid(call.arg))
  /\ call.op = "generateAllSystems" =>
       IF SomeTraitInvalid(call.arg)
       THEN call.outcome = [status |-> "threw", error |-> "Invalid Big Five traits provided"]
       ELSE /\ call.outcome.status = "returned"
            /\ ProfileFields \subseteq DOMAIN call.outcome.value

\* generateAllSystems threw on a vector whose only fault is a missing trait.
C2_Witness ==
  /\ call.op = "generateAllSystems"
  /\ call.outcome.status = "threw"
  /\ "neuroticism" \notin DOMAIN call.arg
  /\ \A k \in DOMAIN call.arg : InRange(call.arg[k])

ReportFields == {"isConsistent", "consistencyScore", "warnings"}

\* The object holds a consistency report under one of its fields.
HoldsReport(obj) == \E f \in DOMAIN obj : DOMAIN obj[f] = ReportFields

LettersAsClaimed(bf, m) ==
  LET EI == IF bf.extraversion > Num(50) THEN "E" ELSE "I"
      SN == IF bf.openness > Num(50) THEN "N" ELSE "S"
      TF == IF bf.agreeableness > Num(50) THEN "F" ELSE "T"
      JP == IF bf.conscientiousness > Num(50) THEN "J" ELSE "P"
  IN  /\ m.type = << EI, SN, TF, JP >>
      /\ m.type \in MBTIType
      /\ m.dimensions.EI.preference = m.type[1]
      /\ m.dimensions.SN.preference = m.type[2]
      /\ m.dimensions.TF.preference = m.type[3]
      /\ m.dimensions.JP.preference = m.type[4]
      /\ bf.extraversion = Num(50) => m.type[1] = "I"
      /\ bf.openness = Num(50) => m.type[2] = "S"
      /\ bf.agreeableness = Num(50) => m.type[3] = "T"
      /\ bf.conscientiousness = Num(50) => m.type[4] = "P"

\* C4: the MBTI conversion picks E, N, F, J iff extraversion, openness,
\* agreeableness, conscientiousness is above 50 and I, S, T, P otherwise (at 50
\* too); the type is these letters in the order EI, SN, TF, JP, one of the 16
\* enumerated types, and its i-th letter is the i-th dimension's preference.
C4_LettersFollowThresholds ==
  /\ call.op = "convertBigFiveToMBTI" => LettersAsClaimed(call.arg, call.outcome.value)
  /\ Generated => LettersAsClaimed(call.arg, call.outcome.value.mbti)

\* A conversion with extraversion exactly 50 and openness above 50.
C4_Witness ==
  /\ call.op = "convertBigFiveToMBTI"
  /\ call.arg.extraversion = Num(50)
  /\ call.arg.openness = Num(80)
  /\ call.outcome.value.type = Str4("I", "N", "T", "P")

MBTIOps == {"convertBigFiveToMBTI", "MBTIConverter.convertBigFiveToMBTI"}

SameMBTI(m1, m2) ==
  /\ m1.type = m2.type
  /\ \A d \in {"EI", "SN", "TF", "JP"} :
        m1.dimensions[d].strength = m2.dimensions[d].strength
  /\ m1.confidence = m2.confidence

\* C5: the MBTI profiles derived from the same vector in one session, whatever
\* calls lie between the derivations, have the same type, the same four
\* strengths and the same confidence.
C5_DerivationsAgree ==
  /\ \A i \in 1..Len(mbtiRuns) : \A j \in 1..Len(mbtiRuns) :
        SameMBTI(mbtiRuns[i], mbtiRuns[j])
  /\ (call.op \in MBTIOps /\ Len(mbtiRuns) > 0) => SameMBTI(call.outcome.value, mbtiRuns[1])
  /\ (Generated /\ Len(mbtiRuns) > 0) => SameMBTI(call.outcome.value.mbti, mbtiRuns[1])

\* Two derivations were made, and another conversion after them.
C5_Witness ==
  /\ Len(mbtiRuns) = 2
  /\ call.op = "convertBigFiveToTCI"
  /\ mbtiRuns[1].type = Str4("E", "N", "F", "J")

\* C6: TCI confidence lies in [60,100], MBTI confidence in [20,100] and HEXACO
\* confidence in [70,100].
C6_ConfidenceFloorsAndCaps ==
  /\ Generated =>
       LET p == call.outcome.value
       IN  /\ Num(60) <= p.tci.confidence /\ p.tci.confidence <= Num(100)
           /\ Num(20) <= p.mbti.confidence /\ p.mbti.confidence <= Num(100)
           /\ Num(70) <= p.hexaco.confidence /\ p.hexaco.confidence <= Num(100)
  /\ call.op = "convertBigFiveToTCI" =>
       Num(60) <= call.outcome.value.confidence /\ call.outcome.value.confidence <= Num(100)
  /\ call.op \in MBTIOps =>
       Num(20) <= call.outcome.value.confidence /\ call.outcome.value.confidence <= Num(100)
  /\ call.op = "convertBigFiveToHEXACO" =>
       Num(70) <= call.outcome.value.confidence /\ call.outcome.value.confidence <= Num(100)

\* A profile whose TCI confidence sits on its floor and whose MBTI confidence
\* sits on its cap.
C6_Witness ==
  /\ Generated
  /\ call.outcome.value.tci.confidence = Num(60)
  /\ call.outcome.value.mbti.confidence = Num(100)
  /\ call.outcome.value.hexaco.confidence = Num(95)

DarkScores == {"machiavellianism", "narcissism", "psychopathy"}

\* C7 as stated: the Dark Triad profile computed from the HEXACO profile of the
\* vector has the same three scores as the one computed from the vector itself.
C7_VariantsAgree ==
  call.op = "calculateFromHEXACO" =>
    \A f \in DarkScores : call.outcome.value[f] = convertBigFiveToDarkTriad(traits)[f]

\* C7 amended: the two variants agree on overallDarkness (0) and riskLevel
\* (LOW) and each keeps its three scores in [0,100]; the scores themselves are
\* computed by different formulas and differ: for the vector of all 50 the
\* HEXACO-sourced scores are 52, 50 and 46, the direct ones 46.5, 40.5 and 31.25.
C7_VariantsShareRangeOnly ==
  call.op = "calculateFromHEXACO" =>
    LET fromHexaco == call.outcome.value
        direct == convertBigFiveToDarkTriad(traits)
    IN  /\ call.arg = convertBigFiveToHEXACO(traits)
        /\ \A f \in DarkScores : InRange(fromHexaco[f]) /\ InRange(direct[f])
        /\ fromHexaco.overallDarkness = direct.overallDarkness
        /\ fromHexaco.riskLevel = direct.riskLevel
        /\ traits = Vector(50, 50, 50, 50, 50) =>
             /\ fromHexaco.machiavellianism = Num(52)
             /\ fromHexaco.narcissism = Num(50)
             /\ fromHexaco.psychopathy = Num(46)
             /\ 2 * direct.machiavellianism = Num(93)
             /\ 2 * direct.narcissism = Num(81)
             /\ 4 * direct.psychopathy = Num(125)

\* The HEXACO-sourced profile of the neutral vector.
C7_Witness ==
  /\ call.op = "calculateFromHEXACO"
  /\ traits = Vector(50, 50, 50, 50, 50)
  /\ call.outcome.value.machiavellianism = Num(52)

\* validateSystemConsistency has just returned its report on a supplied object.
ValidatedSupplied == call.op = "validateSystemConsistency" /\ supplied # NoProfiles

\* The three coherence rules in the claims' words, for a systems object.
RuleA(sys) == (sys.mbti.type[1] = "E") # (sys.bigFive.extraversion > Num(50))

RuleB(sys) ==
  /\ sys.hexaco.honestyHumility > Num(70)
  /\ sys.darkTriad.machiavellianism + sys.darkTriad.narcissism + sys.darkTriad.psychopathy
       > 3 * Num(50)

RuleC(sys) ==
  /\ sys.tci.character.selfDirectedness > Num(70)
  /\ sys.tci.temperament.impulsiveness > Num(70)

If(b, x) == IF b THEN x ELSE 0

\* C8: the score is 100 minus 10 if rule A fires, minus 15 if B fires, minus 10
\* if C fires (one of 100, 90, 85, 80, 75, 65, never below 0); warnings holds
\* one string per fired rule in the order A, B, C; isConsistent holds iff
\* warnings is empty, iff the score is 100.
C8_ScoreAndWarnings ==
  ValidatedSupplied =>
    LET sys == call.arg
        r == call.outcome.value
    IN  /\ r.consistencyScore = Num(100) - If(RuleA(sys), Num(10)) - If(RuleB(sys), Num(15))
                                  - If(RuleC(sys), Num(10))
        /\ r.consistencyScore \in { Num(x) : x \in {100, 90, 85, 80, 75, 65} }
        /\ r.consistencyScore >= 0
        /\ r.warnings = (IF RuleA(sys) THEN << WarningA >> ELSE << >>)
                          \o (IF RuleB(sys) THEN << WarningB >> ELSE << >>)
                          \o (IF RuleC(sys) THEN << WarningC >> ELSE << >>)
        /\ r.isConsistent <=> (r.warnings = << >>)
        /\ r.isConsistent <=> (r.consistencyScore = Num(100))

\* All three rules fired.
C8_Witness ==
  /\ ValidatedSupplied
  /\ call.outcome.value.consistencyScore = Num(65)
  /\ call.outcome.value.warnings = << WarningA, WarningB, WarningC >>

\* C9: for each of the 16 types and each extraversion value, the rule A
\* warning is emitted, as the first warning, and 10 points are deducted for it
\* iff (the type's first letter is E) differs from (extraversion > 50);
\* extraversion 80 with a type beginning with I always does so.
C9_RuleAByFirstLetter ==
  ValidatedSupplied =>
    LET sys == call.arg
        w == call.outcome.value.warnings
        emitted(msg) == \E i \in 1..Len(w) : w[i] = msg
        others == If(emitted(WarningB), Num(15)) + If(emitted(WarningC), Num(10))
        deducted == Num(100) - others - call.outcome.value.consistencyScore
    IN  /\ sys.mbti.type \in MBTIType
        /\ RuleA(sys) <=> (Len(w) > 0 /\ w[1] = WarningA)
        /\ \A i \in 2..Len(w) : w[i] # WarningA
        /\ deducted = If(RuleA(sys), Num(10))
        /\ (sys.bigFive.extraversion = Num(80) /\ sys.mbti.type[1] = "I") =>
             (w[1] = WarningA /\ deducted = Num(10))

\* Extraversion 80 with an I type, the other two rules firing as well.
C9_Witness ==
  /\ ValidatedSupplied
  /\ call.arg.bigFive.extraversion = Num(80)
  /\ call.arg.mbti.type = Str4("I", "S", "F", "P")
  /\ Len(call.outcome.value.warnings) = 3
  /\ call.outcome.value.warnings[1] = WarningA

\* C10: calculateMBTIConsistency is 25 times the number of positions at which
\* the supplied type agrees with the type MBTIConverter derives from the
\* vector; the two converters derive the same profile, and for a profile one of
\* them derived from the same vector the result is 100.
C10_MBTIConsistency ==
  call.op = "calculateMBTIConsistency" =>
    LET bf == call.arg.bigFive
        mbti == call.arg.mbti
        rederived == MBTIConverter_convertBigFiveToMBTI(bf).type
        agreeing == { i \in 1..4 : mbti.type[i] = rederived[i] }
    IN  /\ call.outcome.value = Num(25) * Cardinality(agreeing)
        /\ call.outcome.value \in { Num(x) : x \in {0, 25, 50, 75, 100} }
        /\ convertBigFiveToMBTI(bf) = MBTIConverter_convertBigFiveToMBTI(bf)
        /\ mbti \in { convertBigFiveToMBTI(bf), MBTIConverter_convertBigFiveToMBTI(bf) } =>
             call.outcome.value = Num(100)

\* The profile checked is the engine's own derivation from the vector.
C10_Witness ==
  /\ call.op = "calculateMBTIConsistency"
  /\ call.arg.mbti = convertBigFiveToMBTI(call.arg.bigFive)
  /\ call.arg.mbti # supplied.mbti
  /\ call.arg.bigFive.extraversion = Num(50)
  /\ call.outcome.value = Num(100)

\* The field of a request body is missing in the claims' sense: absent or empty.
MissingName(b, k) == k \notin DOMAIN b \/ b[k] = ""

ConvertTargets == {"MBTI", "HEXACO", "DARK_TRIAD", "TCI"}

\* The profile the claim expects for a target.
ConvertedFor(target, bf) ==
  CASE target = "MBTI" -> convertBigFiveToMBTI(bf)
    [] target = "HEXACO" -> convertBigFiveToHEXACO(bf)
    [] target = "DARK_TRIAD" -> convertBigFiveToDarkTriad(bf)
    [] target = "TCI" -> convertBigFiveToTCI(bf)

\* The response is a failure with this message and without a result.
FailsWith(r, msg) ==
  /\ r.status = 400
  /\ r.json.success = FALSE
  /\ r.json.error = msg
  /\ DOMAIN r.json = {"success", "error"}

\* C11: the convert route decides in this order: a missing sourceSystem,
\* targetSystem or data; a source other than BIG_FIVE; a vector failing
\* validation (whatever the target); the target.  A valid vector yields the
\* converted profile for MBTI, HEXACO, DARK_TRIAD and TCI and the
\* unsupported-target failure, without a result, for every other target name,
\* BIG_FIVE included.
C11_ConvertCheckOrder ==
  call.op = "POST convert" =>
    LET b == call.arg
        r == call.outcome.value
    IN  IF MissingName(b, "sourceSystem") \/ MissingName(b, "targetSystem")
             \/ "data" \notin DOMAIN b \/ b.data = Null
        THEN FailsWith(r, Msg("Missing required fields: sourceSystem, targetSystem, or data."))
        ELSE IF b.sourceSystem # "BIG_FIVE"
        THEN FailsWith(r, Msg("Only BIG_FIVE as sourceSystem is currently supported."))
        ELSE IF SomeTraitInvalid(Numbers(b.data))
        THEN FailsWith(r, Msg("Invalid Big Five trait values."))
        ELSE IF b.targetSystem \in ConvertTargets
        THEN /\ r.status = 200
             /\ r.json = [ success |-> TRUE,
                           result |-> ConvertedFor(b.targetSystem, Numbers(b.data)) ]
        ELSE FailsWith(r, << "Conversion to targetSystem '", b.targetSystem,
                             "' is not supported." >>)

\* An invalid vector sent with an unsupported target: the invalid-traits
\* failure was the answer.
C11_Witness ==
  /\ call.op = "POST convert"
  /\ DOMAIN call.arg = {"sourceSystem", "targetSystem", "data"}
  /\ call.arg.sourceSystem = "BIG_FIVE"
  /\ call.arg.targetSystem = "ENNEAGRAM"
  /\ call.arg.data # Null
  /\ "openness" \notin DOMAIN call.arg.data
  /\ call.outcome.value.json.error = Msg("Invalid Big Five trait values.")

ValidateSystems == {"BIG_FIVE", "MBTI", "HEXACO", "DARK_TRIAD", "TCI"}

\* The property holds a number in [0,100].
IsScore(p, k) ==
  /\ k \in DOMAIN p
  /\ p[k].type = "number"
  /\ 0 <= p[k].value /\ p[k].value <= Num(100)

\* The property holds a value that counts as present: not null, and not one
\* of the empty scalars 0 and "" (every object and array counts).
IsPresent(p, k) ==
  /\ k \in DOMAIN p
  /\ p[k].type # "null"
  /\ p[k].type = "number" => p[k].value # 0
  /\ p[k].type = "string" => p[k].value # << >>

\* The structural check the claim names for each system.
StructurallyValid(system, data) ==
  CASE system = "BIG_FIVE" -> validateBigFive(Numbers(data))
    [] system = "MBTI" ->
         /\ "type" \in DOMAIN data
         /\ data.type.type = "string"
         /\ Len(data.type.value) = 4
         /\ "dimensions" \in DOMAIN data
         /\ data.dimensions.type \in {"object", "array"}
    [] system = "HEXACO" ->
         \A k \in {"honestyHumility", "emotionality", "extraversion", "agreeableness",
                   "conscientiousness", "openness"} : IsScore(data, k)
    [] system = "DARK_TRIAD" ->
         \A k \in {"machiavellianism", "narcissism", "psychopathy"} : IsScore(data, k)
    [] system = "TCI" -> IsPresent(data, "temperament") /\ IsPresent(data, "character")

PairsOf(n) == { ij \in (1..n) \X (1..n) : ij[1] < ij[2] }

RECURSIVE SumOfPairs(_, _)
\* The similarities of the pairs added up in the order of the pairs.
SumOfPairs(p, pairs) ==
  IF pairs = << >> THEN Zero
  ELSE Add(SumOfPairs(p, SubSeq(pairs, 1, Len(pairs) - 1)),
           cosineSimilarity(p[pairs[Len(pairs)][1]], p[pairs[Len(pairs)][2]]))

\* The parts of the claim about the matrix, the extremes and the conflicts.
C13_MatrixAndExtremes(p, c) ==
  LET n == Len(p)
      m == c.pairwiseSimilarities
      sims == { m[ij[1]][ij[2]] : ij \in PairsOf(n) }
  IN  /\ DOMAIN m = 1..n
      /\ \A i \in 1..n : DOMAIN m[i] = 1..n
      /\ \A i \in 1..n : \A j \in 1..n : m[i][j] = m[j][i]
      /\ \A ij \in PairsOf(n) : m[ij[1]][ij[2]] = cosineSimilarity(p[ij[1]], p[ij[2]])
      /\ \A i \in 1..n : \A j \in (1..n) \ {i} :
           p[i] = Vector(0, 0, 0, 0, 0) => m[i][j] = Zero
      /\ c.minSimilarity \in sims /\ \A s \in sims : LessEq(c.minSimilarity, s)
      /\ c.maxSimilarity \in sims /\ \A s \in sims : LessEq(s, c.maxSimilarity)
      /\ c.avgSimilarity = DivideBy(SumOfPairs(p, PairsFrom(1, 2, n)), Cardinality(PairsOf(n)))
      /\ Len(c.conflicts) = IF Less(c.minSimilarity, Threshold07) THEN 1 ELSE 0

\* C13: the compare route fails, without a comparison, on fewer than 2
\* profiles; for n >= 2 vectors it returns an n-by-n symmetric matrix holding
\* the cosine similarity of each pair, the minimum, maximum and average over
\* the pairs i < j with min <= avg <= max, and a conflicts list with one entry
\* iff the minimum is below 0.7, empty otherwise; the zero vector has
\* similarity 0 with every other vector.
C13_CompareMatrix ==
  call.op = "POST compare" =>
    LET b == call.arg
        r == call.outcome.value
    IN  IF \/ "profiles" \notin DOMAIN b
           \/ b.profiles.type # "array"
           \/ Len(b.profiles.value) < 2
        THEN FailsWith(r, Msg("At least two profiles are required for comparison."))
        ELSE LET c == r.json.comparison
             IN  /\ r.status = 200 /\ r.json.success = TRUE
                 /\ C13_MatrixAndExtremes(b.profiles.value, c)
                 /\ LessEq(c.minSimilarity, c.avgSimilarity)
                 /\ LessEq(c.avgSimilarity, c.maxSimilarity)

\* Everything of C13 but the place of the average between the extremes.
C13_Rest ==
  (call.op = "POST compare" /\ call.outcome.value.status = 200) =>
    C13_MatrixAndExtremes(call.arg.profiles.value, call.outcome.value.json.comparison)

\* C14: the profile generateAllSystems returns is a value of its own: the call
\* leaves the trait object it is given as it was, and whatever the caller does
\* to that trait object afterwards, the kept profile's bigFive still holds the
\* values supplied at the call, and validateSystemConsistency on the kept
\* profile gives the report it gives on those values.
C14_KeptProfileUnchanged ==
  /\ call.op = "generateAllSystems" => traits = call.arg
  /\ held # NoProfiles =>
       /\ Deref(held.profile).bigFive = held.given
       /\ call.op = "validateSystemConsistency" =>
            call.outcome.value =
              validateSystemConsistency([held.profile EXCEPT !.bigFive = held.given])

\* C15: every function of personalitySystemUtils, called as a member of that
\* object with a valid input, completes without error and returns what the
\* PersonalityEngine static method it stands for returns, called on the class
\* with the same input.
C15_UtilsMembersComplete ==
  call.op = "personalitySystemUtils" =>
    /\ call.outcome.status = "returned"
    /\ call.outcome =
         Invoke("PersonalityEngine", personalitySystemUtils[call.member], call.arg)

\* The members that do complete: the three whose bodies call nothing on this.
C15_MembersWithoutThis ==
  (/\ call.op = "personalitySystemUtils"
   /\ call.member \in {"validateBigFive", "validateConsistency", "getRecommendedSystems"}) =>
    /\ call.outcome.status = "returned"
    /\ call.outcome =
         Invoke("PersonalityEngine", personalitySystemUtils[call.member], call.arg)

\* Two strings that differ at most in the case of their letters.
SameIgnoringCase(a, b) ==
  /\ Len(a) = Len(b)
  /\ \A i \in 1..Len(a) :
        \/ a[i] = b[i]
        \/ \E j \in 1..Len(UpperCaseLetters) :
              {a[i], b[i]} = {UpperCaseLetters[j], LowerCaseLetters[j]}

PersonalitySystemTypes == {"BIG_FIVE", "MBTI", "HEXACO", "DARK_TRIAD", "TCI"}

\* A list of 1 to 3 systems without repetition.
IsSystemList(v) ==
  /\ v.type = "array"
  /\ Len(v.value) \in 1..3
  /\ \A i \in 1..Len(v.value) : v.value[i] \in PersonalitySystemTypes
  /\ \A i, j \in 1..Len(v.value) : v.value[i] = v.value[j] => i = j

\* What the call returns for a string that is one of the nine archetypes up
\* to case.
C16_Archetypes ==
  call.op = "PersonalityEngine.getRecommendedSystemForCharacterType" =>
    \A i \in 1..Len(recommendations) :
       SameIgnoringCase(call.arg, recommendations[i][1]) =>
         /\ call.outcome = Returned(JArr(recommendations[i][2]))
         /\ IsSystemList(call.outcome.value)

\* C16: getRecommendedSystemForCharacterType returns, for a string that is
\* one of the nine archetypes up to the case of its letters, that archetype's
\* list of 1 to 3 distinct systems, and for every other string exactly
\* [BIG_FIVE, MBTI].
C16_RecommendedSystems ==
  /\ C16_Archetypes
  /\ call.op = "PersonalityEngine.getRecommendedSystemForCharacterType" =>
       ((~ \E k \in recommendationKeys : SameIgnoringCase(call.arg, k)) =>
          call.outcome = Returned(JArr(<< "BIG_FIVE", "MBTI" >>)))

MBTIConversions == {"convertBigFiveToMBTI", "MBTIConverter.convertBigFiveToMBTI"}

\* The average of the four dimension strengths of an MBTI profile.
AverageStrength(mbti) ==
  SumOver(<< mbti.dimensions.EI.strength, mbti.dimensions.SN.strength,
             mbti.dimensions.TF.strength, mbti.dimensions.JP.strength >>, 1..4) \div 4

\* C17: on every valid vector each MBTI dimension strength is |trait - 50| * 2
\* of its source trait (extraversion for EI, openness for SN, agreeableness
\* for TF, conscientiousness for JP); the confidence is min(100, average of
\* the four strengths + 20), is the same for every value of neuroticism, and
\* is 100 exactly when the average strength is at least 80.
C17_StrengthsAndConfidence ==
  call.op \in MBTIConversions =>
    LET t == call.arg
        mbti == call.outcome.value
    IN  /\ mbti.dimensions.EI.strength = Abs(t.extraversion - Num(50)) * 2
        /\ mbti.dimensions.SN.strength = Abs(t.openness - Num(50)) * 2
        /\ mbti.dimensions.TF.strength = Abs(t.agreeableness - Num(50)) * 2
        /\ mbti.dimensions.JP.strength = Abs(t.conscientiousness - Num(50)) * 2
        /\ mbti.confidence = Min(Num(100), AverageStrength(mbti) + Num(20))
        /\ \A n \in MBTIScores :
              mbti.confidence =
                IF call.op = "convertBigFiveToMBTI"
                THEN convertBigFiveToMBTI([t EXCEPT !.neuroticism = Num(n)]).confidence
                ELSE MBTIConverter_convertBigFiveToMBTI([t EXCEPT !.neuroticism = Num(n)]).confidence
        /\ (mbti.confidence = Num(100)) <=> (AverageStrength(mbti) >= Num(80))

\* The engine converts a vector whose strengths are 100, 100, 60 and 60: their
\* average is 80 and the confidence is 100.
C17_Witness ==
  /\ call.op = "convertBigFiveToMBTI"
  /\ call.arg = Vector(100, 80, 100, 20, 0)
  /\ AverageStrength(call.outcome.value) = Num(80)
  /\ call.outcome.value.dimensions.TF.strength = Num(60)
  /\ call.outcome.value.confidence = Num(100)

NeutralVector == Vector(50, 50, 50, 50, 50)

\* What the conversions return for the neutral vector, but for the type.
C18_NeutralScores(mbti) ==
  /\ mbti.dimensions.EI.strength = 0
  /\ mbti.dimensions.SN.strength = 0
  /\ mbti.dimensions.TF.strength = 0
  /\ mbti.dimensions.JP.strength = 0
  /\ mbti.confidence = Num(20)

\* C18 as stated: for the vector with all five traits at 50 the MBTI
\* conversion returns type "ISTJ", every strength 0 and confidence 20.
C18_NeutralIsISTJ ==
  (call.op \in MBTIConversions /\ call.arg = NeutralVector) =>
    /\ call.outcome.value.type = Str4("I", "S", "T", "J")
    /\ C18_NeutralScores(call.outcome.value)

\* C18, amended: for the vector with all five traits at 50 the MBTI conversion
\* returns type "ISTP" (a conscientiousness of 50 is not above 50, and the
\* other letter of that dimension is P), every strength 0 and confidence 20.
C18_NeutralIsISTP ==
  (call.op \in MBTIConversions /\ call.arg = NeutralVector) =>
    /\ call.outcome.value.type = Str4("I", "S", "T", "P")
    /\ call.outcome.value.dimensions.EI.preference = "I"
    /\ call.outcome.value.dimensions.SN.preference = "S"
    /\ call.outcome.value.dimensions.TF.preference = "T"
    /\ call.outcome.value.dimensions.JP.preference = "P"
    /\ C18_NeutralScores(call.outcome.value)

C18_Witness ==
  /\ call.op = "convertBigFiveToMBTI"
  /\ call.arg = NeutralVector
  /\ call.outcome.value.type = Str4("I", "S", "T", "P")
  /\ call.outcome.value.confidence = Num(20)

HEXACOConversions == {"convertBigFiveToHEXACO", "HEXACOCalculator.calculateFromBigFive"}

\* How many of the five traits lie below 20 or above 80.
ExtremeTraits(t) ==
  Cardinality({ k \in requiredTraits : t[k] < Num(20) \/ t[k] > Num(80) })

\* C19: on every valid vector the HEXACO conversion passes extraversion,
\* conscientiousness and openness through, sets agreeableness to
\* max(0, agreeableness - 10), emotionality to
\* min(100, neuroticism + 0.2 * agreeableness) and confidence to
\* min(100, 70 + 5 * number of traits below 20 or above 80), one of 70, 75,
\* 80, 85, 90, 95; the engine and HEXACOCalculator return the same profile.
C19_HEXACOConversion ==
  call.op \in HEXACOConversions =>
    LET t == call.arg
        hexaco == call.outcome.value
    IN  /\ hexaco.extraversion = t.extraversion
        /\ hexaco.conscientiousness = t.conscientiousness
        /\ hexaco.openness = t.openness
        /\ hexaco.agreeableness = Max(0, t.agreeableness - Num(10))
        /\ hexaco.emotionality = Min(Num(100), t.neuroticism + ((t.agreeableness * 2) \div 10))
        /\ hexaco.confidence = Min(Num(100), Num(70) + (Num(5) * ExtremeTraits(t)))
        /\ hexaco.confidence \in { Num(c) : c \in {70, 75, 80, 85, 90, 95} }
        /\ hexaco = convertBigFiveToHEXACO(t)
        /\ hexaco = HEXACOCalculator_calculateFromBigFive(t)

\* HEXACOCalculator converts a vector with all five traits below 20 and an
\* agreeableness below 10.
C19_Witness ==
  /\ call.op = "HEXACOCalculator.calculateFromBigFive"
  /\ call.arg.agreeableness = Num(5)
  /\ call.arg.extraversion = Num(19)
  /\ call.outcome.value.agreeableness = 0
  /\ call.outcome.value.emotionality = Num(1)
  /\ call.outcome.value.confidence = Num(95)

\* (100 - neuroticism + agreeableness + conscientiousness) / 3
HonestyBase(t) ==
  ((Num(100) - t.neuroticism) + t.agreeableness + t.conscientiousness) \div 3

\* C20: on every valid vector honestyHumility is the base
\* ((100 - neuroticism) + agreeableness + conscientiousness) / 3 capped at 100
\* when agreeableness is at least 20 and max(0, base - 30) when it is below 20
\* (so at 19.99 and not at 20); for agreeableness = neuroticism =
\* conscientiousness = 10 it is 20/3.
C20_HonestyHumility ==
  call.op \in HEXACOConversions =>
    LET t == call.arg
        honestyHumility == call.outcome.value.honestyHumility
    IN  /\ t.agreeableness >= Num(20) => honestyHumility = Min(Num(100), HonestyBase(t))
        /\ t.agreeableness < Num(20) => honestyHumility = Max(0, HonestyBase(t) - Num(30))
        /\ t.agreeableness = JustBelow20 =>
             honestyHumility = Max(0, HonestyBase(t) - Num(30))
        /\ t.agreeableness = Num(20) => honestyHumility = HonestyBase(t)
        /\ (/\ t.agreeableness = Num(10)
            /\ t.neuroticism = Num(10)
            /\ t.conscientiousness = Num(10)) => honestyHumility * 3 = Num(20)

\* The engine converts a vector with agreeableness 19.99 whose base is above
\* 30: the penalty is applied and leaves a positive score.
C20_Witness ==
  /\ call.op = "convertBigFiveToHEXACO"
  /\ call.arg.agreeableness = JustBelow20
  /\ call.arg.neuroticism = 0
  /\ call.arg.conscientiousness = Num(100)
  /\ call.outcome.value.honestyHumility = HonestyBase(call.arg) - Num(30)
  /\ call.outcome.value.honestyHumility > Num(43)

TotalScore(d) == d.machiavellianism + d.narcissism + d.psychopathy

\* The tier and the age the cut points assign to a sum.
TierOf(s) ==
  IF s > Num(240) THEN << "high", 18 >>
  ELSE IF s > Num(180) THEN << "medium", 16 >>
  ELSE IF s > Num(120) THEN << "low", 13 >>
  ELSE << "none", 0 >>

\* C22: evaluateContent classifies a Dark Triad profile by the sum S of its
\* three sub-scores with strict cut points (S > 240 high / 18, else S > 180
\* medium / 16, else S > 120 low / 13, else none / 0, so that S of exactly
\* 240, 180 and 120 falls in the lower tier); the age restriction never
\* decreases when S grows, and the profile evaluated is left as it was.
C22_ContentTiers ==
  call.op = "evaluateContent" =>
    LET d == call.arg
        result == call.outcome.value
    IN  /\ << result.warningLevel, result.ageRestriction >> = TierOf(TotalScore(d))
        /\ TotalScore(d) = Num(240) => result.warningLevel = "medium"
        /\ TotalScore(d) = Num(180) => result.warningLevel = "low"
        /\ TotalScore(d) = Num(120) => result.warningLevel = "none"
        /\ \A other \in DarkTriadProfiles :
              TotalScore(other.darkTriad) >= TotalScore(d) =>
                evaluateContent(other.darkTriad).ageRestriction >= result.ageRestriction
        /\ supplied # NoProfiles => supplied.darkTriad = d
        /\ supplied = NoProfiles => convertBigFiveToDarkTriad(traits) = d

\* A supplied profile whose sum is exactly 240 has been evaluated as medium.
C22_Witness ==
  /\ call.op = "evaluateContent"
  /\ supplied # NoProfiles
  /\ call.arg = supplied.darkTriad
  /\ TotalScore(call.arg) = Num(240)
  /\ call.outcome.value.warningLevel = "medium"
  /\ call.outcome.value.ageRestriction = 16

\* 236.5
LargestDerivedTotal == Num(473) \div 2

\* The tier evaluateContent gives the profile derived from a trait object.
DerivedTier(t) == evaluateContent(convertBigFiveToDarkTriad(t)).warningLevel

\* C28: on every valid vector the three scores of convertBigFiveToDarkTriad
\* sum to at most 236.5, so evaluateContent on a directly derived profile
\* never returns the tier high or the age 18; the tiers none, low and medium
\* are each returned for some vector.
C28_DerivedNeverHigh ==
  /\ call.op = "convertBigFiveToDarkTriad" =>
       /\ TotalScore(call.outcome.value) <= LargestDerivedTotal
       /\ \A tier \in {"none", "low", "medium"} :
             \E t \in DarkTriadVectors : DerivedTier(t) = tier
  /\ (call.op = "evaluateContent" /\ supplied = NoProfiles) =>
       /\ TotalScore(call.arg) <= LargestDerivedTotal
       /\ call.outcome.value.warningLevel \in {"none", "low", "medium"}
       /\ call.outcome.value.ageRestriction \in {0, 13, 16}

\* The profile derived from the darkest vector, whose scores sum to 236.5,
\* has been evaluated as medium.
C28_Witness ==
  /\ call.op = "evaluateContent"
  /\ supplied = NoProfiles
  /\ traits = Vector(100, 0, 100, 0, 0)
  /\ TotalScore(call.arg) = LargestDerivedTotal
  /\ call.outcome.value.warningLevel = "medium"

\* c1 x + c2 y for coefficients given in tenths.
Tenths(c1, x, c2, y) == ((c1 * x) + (c2 * y)) \div 10

\* The temperament the claim states for the vector t.
StatedTemperament(t) ==
  [ noveltySeekingCuriosity |-> Tenths(7, t.openness, 3, t.extraversion),
    impulsiveness |-> Tenths(8, Num(100) - t.conscientiousness, 2, t.neuroticism),
    extravagance |-> Tenths(6, t.extraversion, 4, Num(100) - t.conscientiousness),
    disorderliness |-> Num(100) - t.conscientiousness,
    harmAvoidance |-> Tenths(7, t.neuroticism, 3, Num(100) - t.extraversion),
    rewardDependence |-> Tenths(5, t.extraversion, 5, t.agreeableness),
    persistence |-> Tenths(8, t.conscientiousness, 2, Num(100) - t.neuroticism) ]

\* The character the claim states for the vector t.
StatedCharacter(t) ==
  [ selfDirectedness |-> Tenths(6, t.conscientiousness, 4, Num(100) - t.neuroticism),
    cooperativeness |-> Tenths(8, t.agreeableness, 2, Num(100) - t.neuroticism),
    selfTranscendence |-> Tenths(6, t.openness, 4, t.agreeableness) ]

\* C23: on every valid vector the TCI conversion returns the ten stated
\* weighted sums (seven of temperament, three of character), each sub-record
\* a function of the Big Five input alone, and the engine's values are those
\* of TemperamentEngine and CharacterEngine of tci-engines.
C23_TCIConversion ==
  /\ call.op = "convertBigFiveToTCI" =>
       /\ call.outcome.value.temperament = StatedTemperament(call.arg)
       /\ call.outcome.value.character = StatedCharacter(call.arg)
       /\ call.outcome.value.temperament = TemperamentEngine_calculateFromBigFive(call.arg)
       /\ call.outcome.value.character = CharacterEngine_calculateFromBigFive(call.arg)
  /\ call.op = "TemperamentEngine.calculateFromBigFive" =>
       /\ call.outcome.value = StatedTemperament(call.arg)
       /\ call.outcome.value = convertBigFiveToTCI(call.arg).temperament
  /\ call.op = "CharacterEngine.calculateFromBigFive" =>
       /\ call.outcome.value = StatedCharacter(call.arg)
       /\ call.outcome.value = convertBigFiveToTCI(call.arg).character

\* The engine has converted a vector of five different scores.
C23_Witness ==
  /\ call.op = "convertBigFiveToTCI"
  /\ call.arg = Vector(100, 40, 60, 55, 0)
  /\ call.outcome.value.temperament.harmAvoidance = Num(12)
  /\ call.outcome.value.temperament.noveltySeekingCuriosity = Num(88)
  /\ call.outcome.value.character.selfDirectedness = Num(64)

\* The population variance of the five whole-number scores of t, in fixed
\* point: (5 * sum of squares - square of the sum) / 25.
PopulationVariance(t) ==
  LET k == [x \in requiredTraits |-> t[x] \div Scale]
      squares == [x \in requiredTraits |-> k[x] * k[x]]
      sum == SumOver(k, requiredTraits)
  IN  (((5 * SumOver(squares, requiredTraits)) - (sum * sum)) * Scale) \div 25

\* The vectors a converted vector is compared with.
ComparedVectors ==
  { Vector(40, c, 50, a, n) : c \in TCIScores, a \in TCIScores, n \in TCIScores }

\* C24: on every valid vector the TCI confidence is max(60, 100 - V), V the
\* population variance (divisor 5) of the five trait values; it is 100
\* exactly when the five traits are equal, never grows when V grows, and is
\* 60 for every vector with V >= 40.
C24_TCIConfidence ==
  call.op = "convertBigFiveToTCI" =>
    LET t == call.arg
        confidence == call.outcome.value.confidence
    IN  /\ confidence = Max(Num(60), Num(100) - PopulationVariance(t))
        /\ (confidence = Num(100)) <=> (\A x, y \in requiredTraits : t[x] = t[y])
        /\ PopulationVariance(t) >= Num(40) => confidence = Num(60)
        /\ \A other \in ComparedVectors :
              PopulationVariance(other) >= PopulationVariance(t) =>
                convertBigFiveToTCI(other).confidence <= confidence

\* The engine has converted a vector of variance 36: the confidence is 64,
\* above the floor.
C24_Witness ==
  /\ call.op = "convertBigFiveToTCI"
  /\ call.arg = Vector(40, 40, 40, 40, 55)
  /\ PopulationVariance(call.arg) = Num(36)
  /\ call.outcome.value.confidence = Num(64)

\* A validation of the derived profiles of a vector with extraversion 90 and
\* a supplied MBTI profile whose type begins with I.
PairedWithI ==
  /\ call.op = "validateSystemConsistency"
  /\ call.arg.mbti = supplied.mbti
  /\ call.arg.bigFive.extraversion = Num(90)
  /\ call.arg.mbti.type[1] = "I"

\* C25 as stated: such a validation returns the score 90 and one warning,
\* whatever the other four traits are.
C25_PairedScore90 ==
  PairedWithI =>
    /\ call.outcome.value.warnings = << WarningA >>
    /\ call.outcome.value.consistencyScore = Num(90)

\* C25, amended: such a validation always triggers Rule A, whose warning
\* comes first and costs 10 points; the score is 90 with that one warning
\* unless the derived HEXACO and Dark Triad profiles also trigger Rule B, and
\* is 75 with two warnings when they do.  Rule C is never triggered.
C25_PairedRuleA ==
  PairedWithI =>
    LET sys == call.arg
        r == call.outcome.value
    IN  /\ r.warnings[1] = WarningA
        /\ ~RuleC(sys)
        /\ ~RuleB(sys) => (r.warnings = << WarningA >> /\ r.consistencyScore = Num(90))
        /\ RuleB(sys) =>
             (r.warnings = << WarningA, WarningB >> /\ r.consistencyScore = Num(75))
        /\ ~r.isConsistent

\* Extraversion 90 with an I type and a vector whose derived profiles trigger
\* Rule B: two warnings and the score 75.
C25_Witness ==
  /\ PairedWithI
  /\ call.arg.bigFive = Vector(100, 100, 90, 50, 0)
  /\ call.outcome.value.warnings = << WarningA, WarningB >>
  /\ call.outcome.value.consistencyScore = Num(75)

\* A validation of the object generateAllSystems returned for the traits.
ValidatedGenerated ==
  /\ call.op = "validateSystemConsistency"
  /\ generateAllSystems(traits).status = "returned"
  /\ call.arg = generateAllSystems(traits).value

\* C27: validating the object generateAllSystems returned for a valid vector
\* never emits the rule A warning nor the rule C warning; only rule B can
\* fire, so the score is 100 or 85 and there is at most one warning.
C27_GeneratedOnlyRuleB ==
  ValidatedGenerated =>
    LET sys == call.arg
        r == call.outcome.value
    IN  /\ (sys.mbti.type[1] = "E") <=> (sys.bigFive.extraversion > Num(50))
        /\ ~RuleA(sys)
        /\ ~RuleC(sys)
        /\ \A i \in 1..Len(r.warnings) : r.warnings[i] \notin {WarningA, WarningC}
        /\ r.consistencyScore \in {Num(100), Num(85)}
        /\ Len(r.warnings) <= 1
        /\ r.consistencyScore = Num(85) <=> r.warnings = << WarningB >>
        /\ r.consistencyScore = Num(85) <=> RuleB(sys)

\* A generated object that triggers rule B, at extraversion 50 where the
\* derived type begins with I.
C27_Witness ==
  /\ ValidatedGenerated
  /\ traits.extraversion = Num(50)
  /\ call.outcome.value.warnings = << WarningB >>
  /\ call.outcome.value.consistencyScore = Num(85)

\* The four traits the two systems share.
MappedTraits == {"extraversion", "agreeableness", "conscientiousness", "openness"}

\* C26: calculateHEXACOConsistency returns the average over extraversion,
\* agreeableness, conscientiousness and openness of 100 - |difference|,
\* whatever honestyHumility and emotionality are, a value in [0,100]; for the
\* profile the engine derives from the same vector it is
\* 100 - min(agreeableness, 10) / 4: 97.5 from agreeableness 10 on and 100
\* only at agreeableness 0; calculateOverallConsistency is the mean of the
\* MBTI and the HEXACO consistency.
C26_HEXACOConsistency ==
  /\ call.op = "calculateHEXACOConsistency" =>
       LET b == call.arg.bigFive
           h == call.arg.hexaco
           r == call.outcome.value
       IN  /\ 4 * r = SumOver([ x \in MappedTraits |->
                                  Num(100) - Abs(OrZero(b, x) - OrZero(h, x)) ],
                              MappedTraits)
           /\ r >= 0 /\ r <= Num(100)
           /\ \A other \in CrossHEXACO :
                (\A x \in MappedTraits : OrZero(other, x) = OrZero(h, x))
                  => calculateHEXACOConsistency(b, other) = r
           /\ h = convertBigFiveToHEXACO(b) =>
                /\ 4 * r = 4 * Num(100) - Min(b.agreeableness, Num(10))
                /\ b.agreeableness >= Num(10) => 2 * r = Num(195)
                /\ r = Num(100) <=> b.agreeableness = 0
  /\ call.op = "calculateOverallConsistency" =>
       2 * call.outcome.value
         = calculateMBTIConsistency(call.arg.bigFive, call.arg.mbti)
             + calculateHEXACOConsistency(call.arg.bigFive, call.arg.hexaco)

\* The derived profile of a vector with agreeableness 50 scored 97.5.
C26_Witness ==
  /\ call.op = "calculateHEXACOConsistency"
  /\ call.arg.hexaco = convertBigFiveToHEXACO(traits)
  /\ traits.agreeableness = Num(50)
  /\ 2 * call.outcome.value = Num(195)

\* The letter of a dimension that goes with the score 75.
HighLetter == [ extraversion |-> "E", openness |-> "N", agreeableness |-> "F",
                conscientiousness |-> "J" ]

LetterAt == [ extraversion |-> 1, openness |-> 2, agreeableness |-> 3,
              conscientiousness |-> 4 ]

\* C30: for each of the 16 types T, convertMBTIToBigFive(T) has extraversion,
\* openness, agreeableness and conscientiousness each 75 or 25 and no
\* neuroticism, and that object completed with any neuroticism converts back
\* with MBTIConverter.convertBigFiveToMBTI to the type T with every dimension
\* strength 50 and confidence 70.
C30_RoundTrip ==
  supplied.kind = "type" /\ supplied.type \in MBTIType =>
    /\ call.op = "convertMBTIToBigFive" =>
         LET r == call.outcome.value
         IN  /\ DOMAIN r = DOMAIN HighLetter
             /\ \A x \in DOMAIN r :
                  r[x] = IF call.arg[LetterAt[x]] = HighLetter[x] THEN Num(75) ELSE Num(25)
             /\ \A x \in DOMAIN r : traits[x] = r[x]
    /\ call.op = "MBTIConverter.convertBigFiveToMBTI" =>
         LET r == call.outcome.value
         IN  /\ call.arg = traits
             /\ r.type = supplied.type
             /\ \A d \in DOMAIN r.dimensions : r.dimensions[d].strength = Num(50)
             /\ r.dimensions.EI.preference = supplied.type[1]
             /\ r.dimensions.SN.preference = supplied.type[2]
             /\ r.dimensions.TF.preference = supplied.type[3]
             /\ r.dimensions.JP.preference = supplied.type[4]
             /\ r.confidence = Num(70)

\* ENFP went to (75, 75, 75, 25), was completed with neuroticism 90 and came
\* back as ENFP.
C30_Witness ==
  /\ supplied.kind = "type"
  /\ supplied.type = Str4("E", "N", "F", "P")
  /\ call.op = "MBTIConverter.convertBigFiveToMBTI"
  /\ call.arg = Vector(75, 25, 75, 75, 90)
  /\ call.outcome.value.type = Str4("E", "N", "F", "P")

\* C29: for every valid vector and every target system among MBTI, HEXACO,
\* DARK_TRIAD and TCI, the profile the convert route returns is reported by
\* the validate route for that system as isValid = true with no errors.
C29_ConvertedIsValid ==
  /\ call.op = "POST convert" /\ validateBigFive(Numbers(call.arg.data))
       => call.outcome.value.status = 200 /\ call.outcome.value.json.success
  /\ call.op = "POST validate" =>
       /\ call.arg.system = input.body.targetSystem
       /\ call.arg.data = ProfileAsJSON(call.arg.system,
                                        POST_convert(input.body).json.result)
       /\ call.outcome.value.status = 200
       /\ call.outcome.value.json.success
       /\ call.outcome.value.json.isValid
       /\ call.outcome.value.json.errors = << >>

\* A HEXACO profile derived from agreeableness 5, whose shifted agreeableness
\* is held at 0, was accepted.
C29_Witness ==
  /\ call.op = "POST validate"
  /\ call.arg.system = "HEXACO"
  /\ input.body.data.agreeableness.value = Num(5)
  /\ call.arg.data.agreeableness.value = 0
  /\ call.outcome.value.json.isValid

====
